---- MODULE Spec2Model ----
(***************************************************************************)
(* protobench: one in-memory metric store (shared/src/lib.rs) served by    *)
(* three transport adapters (REST, gRPC, Cap'n Proto), each a server       *)
(* process of its own with a client half in the benchmarks crate.          *)
(*                                                                         *)
(* The specifications that share the definitions of this module:           *)
(*   SpecStore   one InMemoryStorage driven through its three methods      *)
(*   Spec        the three server processes and the client calls           *)
(*   SpecStream  the gRPC server-streaming query, step by step             *)
(*   SpecStreamFair  SpecStream with its three parties scheduled           *)
(*   SpecBench   the benchmark's data generator and query benchmark        *)
(*   SpecClients concurrent client calls and their connections             *)
(*   SpecTasks   the server processes' connection tasks and who polls them *)
(*   SpecConfine the Cap'n Proto connections of a server and a client      *)
(*   SpecLock    threads inside the store's methods, lock step by lock step*)
(*   SpecLockFair  SpecLock with every thread inside a method scheduled    *)
(*   SpecHarness the instrumentation harness of the benchmarks crate       *)
(***************************************************************************)
EXTENDS Integers, Sequences, FiniteSets, TLC

VARIABLES
    overflow_checks, \* the build: TRUE = debug (arithmetic overflow panics), FALSE = release (wraps)
    storage,         \* server process -> its InMemoryStorage: [metrics, poisoned]
    last,            \* the most recent call: what was asked, on what, and its outcome
    stream,          \* the gRPC QueryMetrics stream in flight (SpecStream)
    bench,           \* the benchmark function in progress (SpecBench)
    CLIENT,          \* grpc_client's process-wide OnceLock (SpecClients)
    connections,     \* every connection the client process has opened (SpecClients)
    calls,           \* the client calls in progress, by task (SpecClients)
    srv,             \* server process -> its accept loop and connection tasks (SpecTasks)
    lock,            \* the store's RwLock: who holds it and how (SpecLock)
    thr,             \* the threads calling the store's methods, by thread (SpecLock)
    harness          \* the instrumented call in progress (SpecHarness)

clientVars == <<CLIENT, connections, calls>>

moreVars == <<srv, lock, thr, harness>>

vars == <<overflow_checks, storage, last, stream, bench, clientVars, moreVars>>

----------------------------------------------------------------------------
(* Bounds.  The integer widths and the vector limit are the program's own   *)
(* limits, and the generator's and benchmark's numbers the program's own    *)
(* numbers, scaled down so that their edge cases are reachable.             *)
(*   GenCount     the 20 metrics of generate_test_data(20)                  *)
(*   OffsetRange  the 3600 of rng.gen_range(0..3600)                        *)
(*   QuerySlack   the 100 of first.timestamp - 100 / last.timestamp + 100   *)
(*   ClockMax     the seconds the wall clock can advance during a run       *)
(*   MaxConnections  the connections a client process opens in a run        *)
(*   MaxRequests  the requests sent on one connection in a run              *)
(*   MaxServerConns  the connections a server accepts in a run              *)
(*   MaxStoreCalls  the calls one thread makes on the store in a run        *)
(* limits scaled down so that their edge cases are reachable.               *)

\* width in bits of the model's i64 (timestamps, time_range_seconds)
I64Bits == 3
\* width in bits of the model's u64 (memory_bytes and its sum)
U64Bits == 3
\* number of elements past which Vec::push panics with "capacity overflow"
\* (isize::MAX bytes in the program)
VecCapacityLimit == 2
\* slots of the gRPC query stream's mpsc channel (128 in the program)
ChannelCapacity == 1
GenCount == 2
OffsetRange == 3
QuerySlack == 0
ClockMax == 1
MaxConnections == 3
MaxRequests == 2
MaxServerConns == 2
MaxStoreCalls == 2

I64Min == -(2 ^ (I64Bits - 1))
I64Max == (2 ^ (I64Bits - 1)) - 1
U64Max == (2 ^ U64Bits) - 1

\* two's-complement wrap of a mathematical integer into the i64 range
WrapI64(x) == ((x - I64Min) % (2 ^ I64Bits)) + I64Min
\* wrap of a mathematical integer into the u64 range
WrapU64(x) == x % (2 ^ U64Bits)

----------------------------------------------------------------------------
(* Values *)

None == [tag |-> "None"]
Some(v) == [tag |-> "Some", val |-> v]

Ok(v) == [tag |-> "Ok", val |-> v]
Err(e) == [tag |-> "Err", err |-> e]
\* the call unwound with a panic instead of returning
Panic(msg) == [tag |-> "Panic", msg |-> msg]

Unit == "()"

\* A string is a sequence of one-character strings, so that the REST client's
\* query-string formatting and the server's parsing can act on its characters.
EmptyString == << >>

\* MetricPoint.  tags (a HashMap) is a set of <<key, value>> pairs with unique keys.
MetricPoint(t, h, cpu, mem, disk, tags) ==
    [timestamp |-> t, hostname |-> h, cpu_percent |-> cpu,
     memory_bytes |-> mem, disk_io_ops |-> disk, tags |-> tags]

MetricQuery(s, e, f) == [start_time |-> s, end_time |-> e, hostname_filter |-> f]

RECURSIVE Gcd(_, _)
Gcd(a, b) == IF b = 0 THEN a ELSE Gcd(b, a % b)

\* An f32 quotient of two small non-negative integers, kept as the exact
\* fraction in lowest terms (f32 rounding is not modelled).
F32Div(n, d) == [num |-> n \div Gcd(n, d), den |-> d \div Gcd(n, d)]
F32Zero == [num |-> 0, den |-> 1]

RECURSIVE SumOver(_, _)
\* the mathematical sum of field f over a sequence of records
SumOver(seq, f) == IF seq = << >> THEN 0 ELSE seq[1][f] + SumOver(Tail(seq), f)

----------------------------------------------------------------------------
(* shared/src/lib.rs: InMemoryStorage *)

\* InMemoryStorage::new
NewStorage == [metrics |-> << >>, poisoned |-> FALSE]

\* store_metric with insert(0, metric) in place of push
store_metric_front(st, metric) ==
    IF st.poisoned
    THEN [store |-> st, res |-> Err("Lock poisoned")]
    ELSE IF Len(st.metrics) >= VecCapacityLimit
    THEN [store |-> [st EXCEPT !.poisoned = TRUE], res |-> Panic("capacity overflow")]
    ELSE [store |-> [st EXCEPT !.metrics = <<metric>> \o @], res |-> Ok(Unit)]

\* store_metric over a bounded log: at the capacity limit the oldest entry
\* is evicted to make room
store_metric_evict(st, metric) ==
    IF st.poisoned
    THEN [store |-> st, res |-> Err("Lock poisoned")]
    ELSE IF Len(st.metrics) >= VecCapacityLimit
    THEN [store |-> [st EXCEPT !.metrics = Append(Tail(@), metric)], res |-> Ok(Unit)]
    ELSE [store |-> [st EXCEPT !.metrics = Append(@, metric)], res |-> Ok(Unit)]

\* store_metric recovering the guard of a poisoned lock and clearing the poison
store_metric_clear_poison(st, metric) ==
    IF st.poisoned
    THEN [store |-> [st EXCEPT !.poisoned = FALSE], res |-> Err("Lock poisoned")]
    ELSE IF Len(st.metrics) >= VecCapacityLimit
    THEN [store |-> [st EXCEPT !.poisoned = TRUE], res |-> Panic("capacity overflow")]
    ELSE [store |-> [st EXCEPT !.metrics = Append(@, metric)], res |-> Ok(Unit)]

\* InMemoryStorage::store_metric.  write() fails on a poisoned lock; push
\* panics when the vector cannot grow, and the write guard dropped while
\* unwinding poisons the lock.  Yields the store afterwards and the outcome.
store_metric(st, metric) ==
    IF st.poisoned
    THEN [store |-> st, res |-> Err("Lock poisoned")]
    ELSE IF Len(st.metrics) >= VecCapacityLimit
    THEN [store |-> [st EXCEPT !.poisoned = TRUE], res |-> Panic("capacity overflow")]
    ELSE [store |-> [st EXCEPT !.metrics = Append(@, metric)], res |-> Ok(Unit)]

\* the time filter with an exclusive upper bound
InTimeRangeExclusive(metric, query) ==
    metric.timestamp >= query.start_time /\ metric.timestamp < query.end_time

\* the first filter of query_metrics: the inclusive time range
InTimeRange(metric, query) ==
    metric.timestamp >= query.start_time /\ metric.timestamp <= query.end_time

\* the second filter of query_metrics: map_or(true, |filter| hostname == filter)
HostnameMatches(metric, query) ==
    IF query.hostname_filter.tag = "Some"
    THEN metric.hostname = query.hostname_filter.val
    ELSE TRUE

\* InMemoryStorage::query_metrics
query_metrics(st, query) ==
    IF st.poisoned
    THEN Err("Lock poisoned")
    ELSE LET inRange(m) == InTimeRange(m, query)
             hostOk(m) == HostnameMatches(m, query)
         IN Ok(SelectSeq(SelectSeq(st.metrics, inRange), hostOk))

\* query.end_time - query.start_time on i64
TimeRangeSeconds(query) ==
    LET d == query.end_time - query.start_time
    IN IF d >= I64Min /\ d <= I64Max THEN Ok(d)
       ELSE IF overflow_checks THEN Panic("attempt to subtract with overflow")
       ELSE Ok(WrapI64(d))

\* metrics.iter().map(|m| m.memory_bytes).sum::<u64>()
SumMemoryBytes(metrics) ==
    LET s == SumOver(metrics, "memory_bytes")
    IN IF s <= U64Max THEN Ok(s)
       ELSE IF overflow_checks THEN Panic("attempt to add with overflow")
       ELSE Ok(WrapU64(s))

\* calculate_statistics reducing the whole time range, the hostname filter dropped
calculate_statistics_all_hosts(st, query) ==
    LET q == query_metrics(st, [query EXCEPT !.hostname_filter = None])
        range == TimeRangeSeconds(query)
    IN IF q.tag = "Err" THEN q
       ELSE IF q.val = << >>
       THEN IF range.tag = "Panic" THEN range
            ELSE Ok([count |-> 0, avg_cpu_percent |-> F32Zero, avg_memory_bytes |-> 0,
                     avg_disk_io_ops |-> F32Zero, time_range_seconds |-> range.val])
       ELSE LET count == Len(q.val)
                mem == SumMemoryBytes(q.val)
            IN IF mem.tag = "Panic" THEN mem
               ELSE IF range.tag = "Panic" THEN range
               ELSE Ok([count |-> count,
                        avg_cpu_percent |-> F32Div(SumOver(q.val, "cpu_percent"), count),
                        avg_memory_bytes |-> mem.val \div count,
                        avg_disk_io_ops |-> F32Div(SumOver(q.val, "disk_io_ops"), count),
                        time_range_seconds |-> range.val])

\* InMemoryStorage::calculate_statistics
calculate_statistics(st, query) ==
    LET q == query_metrics(st, query)
        range == TimeRangeSeconds(query)
    IN IF q.tag = "Err" THEN q
       ELSE IF q.val = << >>
       THEN IF range.tag = "Panic" THEN range
            ELSE Ok([count |-> 0, avg_cpu_percent |-> F32Zero, avg_memory_bytes |-> 0,
                     avg_disk_io_ops |-> F32Zero, time_range_seconds |-> range.val])
       ELSE LET count == Len(q.val)
                mem == SumMemoryBytes(q.val)
            IN IF mem.tag = "Panic" THEN mem
               ELSE IF range.tag = "Panic" THEN range
               ELSE Ok([count |-> count,
                        avg_cpu_percent |-> F32Div(SumOver(q.val, "cpu_percent"), count),
                        avg_memory_bytes |-> mem.val \div count,
                        avg_disk_io_ops |-> F32Div(SumOver(q.val, "disk_io_ops"), count),
                        time_range_seconds |-> range.val])

----------------------------------------------------------------------------
(* SpecStore: one InMemoryStorage (that of one server process) driven       *)
(* through store_metric, query_metrics and calculate_statistics.            *)

Adapters == {"rest", "grpc", "capnp"}

\* the process whose store SpecStore drives
StoreProc == "rest"

StoreHostnames == {EmptyString, <<"w">>}

\* the metrics SpecStore submits: two timestamps, two hostnames, distinct
\* numeric fields, memory_bytes up to the top of the u64 range
StoreMetrics ==
    { MetricPoint(0, EmptyString, 1, 1, 1, {}),
      MetricPoint(0, <<"w">>, 2, U64Max, 3, {<<"env", "prod">>}),
      MetricPoint(1, EmptyString, 3, 2, 2, {}),
      MetricPoint(1, <<"w">>, 1, U64Max - 1, 1, {<<"env", "dev">>}),
      MetricPoint(1, <<"w">>, 2, 1, 4, {}),
      MetricPoint(I64Max, <<"w">>, 0, 0, 0, {}) }

StoreTimes == {I64Min, 0, 1, I64Max}

\* every range over StoreTimes (inverted ones included), with no filter, a
\* filter naming each stored hostname, and one naming no stored hostname
StoreQueries ==
    { MetricQuery(s, e, f) :
        s \in StoreTimes, e \in StoreTimes,
        f \in {None} \union {Some(h) : h \in StoreHostnames \union {<<"x">>}} }

NoStream == [state |-> "none"]

\* no benchmark function is running
NoBench == [pc |-> "none"]

\* the tasks of the client process that make calls concurrently
Tasks == {"t1", "t2"}

\* a task between two client calls
NoCall == [pc |-> "idle"]

\* the threads of a #[tokio::main] runtime: the one that blocks on main's
\* future, and the workers of its pool
MainThread == "main"
PoolWorkers == {"w1", "w2"}

\* the thread on which each calling task's future is polled
CallerThread == [t \in Tasks |-> IF t = "t1" THEN MainThread ELSE "blocking"]

\* the client process at its start: the OnceLock empty, nothing connected
InitClientProcess ==
    /\ CLIENT = None
    /\ connections = << >>
    /\ calls = [t \in Tasks |-> NoCall]

\* a server process once its listener is bound: accepting, no connection yet
InitServerProcesses ==
    srv = [a \in Adapters |-> [accepting |-> TRUE, conns |-> << >>, origin |-> << >>]]

\* the threads that call the store's methods concurrently
Threads == {"h1", "h2"}

\* a thread outside the store's methods
NoStoreCall == [pc |-> "idle", calls |-> 0]

\* the RwLock of a new store, nobody inside
InitLock ==
    /\ lock = [writer |-> None, readers |-> {}]
    /\ thr = [t \in Threads |-> NoStoreCall]

\* no instrumented call is in progress
NoHarness == [pc |-> "none"]

InitStore ==
    /\ overflow_checks \in BOOLEAN
    /\ storage = [a \in Adapters |-> NewStorage]
    /\ last = [op |-> "none"]
    /\ stream = NoStream
    /\ bench = NoBench
    /\ InitClientProcess
    /\ InitServerProcesses
    /\ InitLock
    /\ harness = NoHarness

\* no call is in progress: the previous call's result has been consumed
Idle == last.op = "none"

\* a call of store_metric(metric)
StoreMetricCall(metric) ==
    LET r == store_metric(storage[StoreProc], metric)
    IN /\ Idle
       /\ storage' = [storage EXCEPT ![StoreProc] = r.store]
       /\ last' = [op |-> "store_metric", arg |-> metric,
                   pre |-> storage[StoreProc], res |-> r.res]
       /\ UNCHANGED <<overflow_checks, moreVars, bench, clientVars, stream>>

\* a call of query_metrics(&query)
QueryMetricsCall(query) ==
    /\ Idle
    /\ last' = [op |-> "query_metrics", arg |-> query,
                pre |-> storage[StoreProc], res |-> query_metrics(storage[StoreProc], query)]
    /\ UNCHANGED <<overflow_checks, moreVars, bench, clientVars, storage, stream>>

\* a call of calculate_statistics(&query)
CalculateStatisticsCall(query) ==
    /\ Idle
    /\ last' = [op |-> "calculate_statistics", arg |-> query,
                pre |-> storage[StoreProc],
                res |-> calculate_statistics(storage[StoreProc], query)]
    /\ UNCHANGED <<overflow_checks, moreVars, bench, clientVars, storage, stream>>

\* the caller consumes the result of the call; query and result are discarded
Return ==
    /\ ~Idle
    /\ last' = [op |-> "none"]
    /\ UNCHANGED <<overflow_checks, moreVars, bench, clientVars, storage, stream>>

NextStore ==
    \/ \E metric \in StoreMetrics : StoreMetricCall(metric)
    \/ \E query \in StoreQueries : QueryMetricsCall(query)
    \/ \E query \in StoreQueries : CalculateStatisticsCall(query)
    \/ Return

SpecStore == InitStore /\ [][NextStore]_vars

----------------------------------------------------------------------------
(* Wire formats of the three adapters *)

\* the orders in which the entries of a HashMap can be iterated
RECURSIVE Orders(_)
Orders(S) ==
    IF S = {} THEN {<< >>}
    ELSE UNION {{<<x>> \o r : r \in Orders(S \ {x})} : x \in S}

\* tags.insert(key, value) for every entry of a list, in order
RECURSIVE InsertAll(_, _)
InsertAll(map, list) ==
    IF list = << >> THEN map
    ELSE InsertAll({kv \in map : kv[1] # list[1][1]} \union {list[1]}, Tail(list))

\* every sequence whose i-th element is drawn from the i-th set of choices
RECURSIVE Product(_)
Product(choices) ==
    IF choices = << >> THEN {<< >>}
    ELSE {<<x>> \o r : x \in choices[1], r \in Product(Tail(choices))}

\* ---- REST: JSON bodies (serde_json over the derived Serialize/Deserialize)

\* .json(&metric): the MetricPoint as a JSON object, one member per field
JsonEncodeMetric(m) ==
    [timestamp |-> m.timestamp, hostname |-> m.hostname, cpu_percent |-> m.cpu_percent,
     memory_bytes |-> m.memory_bytes, disk_io_ops |-> m.disk_io_ops, tags |-> m.tags]

\* Json<MetricPoint> / response.json(): the object's members back into the struct
JsonDecodeMetric(j) ==
    MetricPoint(j.timestamp, j.hostname, j.cpu_percent, j.memory_bytes, j.disk_io_ops, j.tags)

JsonEncodeMetrics(ms) == [i \in 1..Len(ms) |-> JsonEncodeMetric(ms[i])]
JsonDecodeMetrics(js) == [i \in 1..Len(js) |-> JsonDecodeMetric(js[i])]

\* MetricStatistics as a JSON object and back
JsonEncodeStats(st) ==
    [count |-> st.count, avg_cpu_percent |-> st.avg_cpu_percent,
     avg_memory_bytes |-> st.avg_memory_bytes, avg_disk_io_ops |-> st.avg_disk_io_ops,
     time_range_seconds |-> st.time_range_seconds]
JsonDecodeStats(j) ==
    [count |-> j.count, avg_cpu_percent |-> j.avg_cpu_percent,
     avg_memory_bytes |-> j.avg_memory_bytes, avg_disk_io_ops |-> j.avg_disk_io_ops,
     time_range_seconds |-> j.time_range_seconds]

\* ---- REST: the query string.  A query string is a sequence of tokens: the
\* parameter names, the decimal rendering of a number, and single characters.

\* the numbers a query string can carry
UrlNumbers == I64Min..I64Max

\* format!("?start_time={}&end_time={}", ..) and, for Some(hostname),
\* format!("&hostname_filter={}", hostname): the hostname is pasted as it is
RestFormatQuery(query) ==
    <<"start_time", "=", ToString(query.start_time), "&",
      "end_time", "=", ToString(query.end_time)>>
    \o (IF query.hostname_filter.tag = "Some"
        THEN <<"&", "hostname_filter", "=">> \o query.hostname_filter.val
        ELSE << >>)

\* the sequence up to the first occurrence of token c (all of it when absent)
RECURSIVE UpTo(_, _)
UpTo(seq, c) ==
    IF seq = << >> \/ seq[1] = c THEN << >> ELSE <<seq[1]>> \o UpTo(Tail(seq), c)

\* the sequence after the first occurrence of token c (empty when absent)
RECURSIVE After(_, _)
After(seq, c) ==
    IF seq = << >> THEN << >>
    ELSE IF seq[1] = c THEN Tail(seq) ELSE After(Tail(seq), c)

\* a space in the query component is sent as %20
RECURSIVE UrlEncodeSpaces(_)
UrlEncodeSpaces(seq) ==
    IF seq = << >> THEN << >>
    ELSE (IF seq[1] = " " THEN <<"%", "2", "0">> ELSE <<seq[1]>>)
         \o UrlEncodeSpaces(Tail(seq))

\* the sequence without its trailing spaces
RECURSIVE TrimTrailingSpaces(_)
TrimTrailingSpaces(seq) ==
    IF seq # << >> /\ seq[Len(seq)] = " "
    THEN TrimTrailingSpaces(SubSeq(seq, 1, Len(seq) - 1))
    ELSE seq

\* client.get(&url): Url::parse strips the spaces that end the URL, ends the
\* query at the first '#' and percent-encodes the spaces left in it
UrlParseQuery(seq) == UrlEncodeSpaces(UpTo(TrimTrailingSpaces(seq), "#"))

\* the query string cut at every '&'
RECURSIVE SplitAmp(_)
SplitAmp(seq) ==
    IF "&" \in {seq[i] : i \in 1..Len(seq)}
    THEN <<UpTo(seq, "&")>> \o SplitAmp(After(seq, "&"))
    ELSE <<seq>>

HexDigits == {"0", "2"}

\* the character a %XY escape of the model's two hex digits stands for
HexChar(x, y) ==
    CASE x = "2" /\ y = "0" -> " "
      [] x = "2" /\ y = "2" -> "\""
      [] x = "0" /\ y = "2" -> "<STX>"
      [] x = "0" /\ y = "0" -> "<NUL>"

\* form_urlencoded decoding of one name or value: '+' is a space, %XY is the
\* byte XY, a '%' not followed by two hex digits stays
RECURSIVE FormDecode(_)
FormDecode(seq) ==
    IF seq = << >> THEN << >>
    ELSE IF seq[1] = "+" THEN <<" ">> \o FormDecode(Tail(seq))
    ELSE IF seq[1] = "%" /\ Len(seq) >= 3 /\ seq[2] \in HexDigits /\ seq[3] \in HexDigits
    THEN <<HexChar(seq[2], seq[3])>> \o FormDecode(SubSeq(seq, 4, Len(seq)))
    ELSE <<seq[1]>> \o FormDecode(Tail(seq))

\* the name/value pairs of a query string: cut at '&', empty pieces skipped,
\* each piece cut at its first '=', both sides decoded
FormPairs(seq) ==
    LET Pairs(pieces) ==
          [i \in 1..Len(pieces) |->
              [name |-> FormDecode(UpTo(pieces[i], "=")),
               value |-> FormDecode(After(pieces[i], "="))]]
    IN Pairs(SelectSeq(SplitAmp(seq), LAMBDA piece : piece # << >>))

\* a value parsed as i64: the decimal rendering of a number, nothing else
ParseI64(value) ==
    IF Len(value) = 1 /\ \E n \in UrlNumbers : ToString(n) = value[1]
    THEN Ok(CHOOSE n \in UrlNumbers : ToString(n) = value[1])
    ELSE Err("invalid digit found in string")

\* Query<QueryParams>: the derived Deserialize over the pairs.  A field given
\* twice or a required field missing or malformed rejects the request;
\* unknown names are ignored; hostname_filter is optional.
RestExtractQueryParams(seq) ==
    LET Deserialize(pairs) ==
          LET at(name) == {i \in 1..Len(pairs) : pairs[i].name = <<name>>}
              one(name) == pairs[CHOOSE i \in at(name) : TRUE].value
          IN IF \E name \in {"start_time", "end_time", "hostname_filter"} :
                    Cardinality(at(name)) > 1
             THEN Err("duplicate field")
             ELSE IF at("start_time") = {} \/ at("end_time") = {}
             THEN Err("missing field")
             ELSE IF ParseI64(one("start_time")).tag = "Err"
                     \/ ParseI64(one("end_time")).tag = "Err"
             THEN Err("invalid digit found in string")
             ELSE Ok([start_time |-> ParseI64(one("start_time")).val,
                      end_time |-> ParseI64(one("end_time")).val,
                      hostname_filter |-> IF at("hostname_filter") = {} THEN None
                                          ELSE Some(one("hostname_filter"))])
    IN Deserialize(FormPairs(seq))

\* ---- gRPC: protobuf messages (prost).  An encoded message is a function
\* from the fields present on the wire to their values; a proto3 field with
\* its default value is not sent, an optional field is sent when it is Some.

ProtoMetricDefaults ==
    [timestamp |-> 0, hostname |-> EmptyString, cpu_percent |-> 0,
     memory_bytes |-> 0, disk_io_ops |-> 0, tags |-> {}]

\* shared MetricPoint -> proto MetricPoint, field by field
ToProtoMetric(m) ==
    [timestamp |-> m.timestamp, hostname |-> m.hostname, cpu_percent |-> m.cpu_percent,
     memory_bytes |-> m.memory_bytes, disk_io_ops |-> m.disk_io_ops, tags |-> m.tags]

\* proto MetricPoint -> shared MetricPoint, field by field
FromProtoMetric(p) ==
    MetricPoint(p.timestamp, p.hostname, p.cpu_percent, p.memory_bytes, p.disk_io_ops, p.tags)

ProstEncodeMetric(p) ==
    [f \in {g \in DOMAIN ProtoMetricDefaults : p[g] # ProtoMetricDefaults[g]} |-> p[f]]

ProstDecodeMetric(w) ==
    [f \in DOMAIN ProtoMetricDefaults |->
        IF f \in DOMAIN w THEN w[f] ELSE ProtoMetricDefaults[f]]

\* shared MetricQuery -> proto MetricQuery and back (hostname_filter: Option<String>)
ToProtoQuery(q) ==
    [start_time |-> q.start_time, end_time |-> q.end_time,
     hostname_filter |-> q.hostname_filter]
FromProtoQuery(p) == MetricQuery(p.start_time, p.end_time, p.hostname_filter)

ProstEncodeQuery(p) ==
    LET present == {f \in {"start_time", "end_time"} : p[f] # 0}
                   \union (IF p.hostname_filter.tag = "Some" THEN {"hostname_filter"} ELSE {})
    IN [f \in present |-> IF f = "hostname_filter" THEN p.hostname_filter.val ELSE p[f]]

ProstDecodeQuery(w) ==
    [start_time |-> IF "start_time" \in DOMAIN w THEN w["start_time"] ELSE 0,
     end_time |-> IF "end_time" \in DOMAIN w THEN w["end_time"] ELSE 0,
     hostname_filter |-> IF "hostname_filter" \in DOMAIN w
                         THEN Some(w["hostname_filter"]) ELSE None]

ProtoStatsDefaults ==
    [count |-> 0, avg_cpu_percent |-> F32Zero, avg_memory_bytes |-> 0,
     avg_disk_io_ops |-> F32Zero, time_range_seconds |-> 0]

\* shared MetricStatistics <-> proto MetricStatistics, field by field
ToProtoStats(st) ==
    [count |-> st.count, avg_cpu_percent |-> st.avg_cpu_percent,
     avg_memory_bytes |-> st.avg_memory_bytes, avg_disk_io_ops |-> st.avg_disk_io_ops,
     time_range_seconds |-> st.time_range_seconds]
FromProtoStats(p) ==
    [count |-> p.count, avg_cpu_percent |-> p.avg_cpu_percent,
     avg_memory_bytes |-> p.avg_memory_bytes, avg_disk_io_ops |-> p.avg_disk_io_ops,
     time_range_seconds |-> p.time_range_seconds]

ProstEncodeStats(p) ==
    [f \in {g \in DOMAIN ProtoStatsDefaults : p[g] # ProtoStatsDefaults[g]} |-> p[f]]
ProstDecodeStats(w) ==
    [f \in DOMAIN ProtoStatsDefaults |->
        IF f \in DOMAIN w THEN w[f] ELSE ProtoStatsDefaults[f]]

\* ---- Cap'n Proto: builders and readers.  tags is a list sized up front and
\* filled in the HashMap's iteration order; hostname_filter is a pointer
\* field, null until set.

\* the MetricPoint builder filled from a shared metric, tags in order tagList
CapnpBuildMetric(m, tagList) ==
    [timestamp |-> m.timestamp, hostname |-> m.hostname, cpu_percent |-> m.cpu_percent,
     memory_bytes |-> m.memory_bytes, disk_io_ops |-> m.disk_io_ops, tags |-> tagList]

\* the shared metric read back from a MetricPoint reader
CapnpReadMetric(r) ==
    MetricPoint(r.timestamp, r.hostname, r.cpu_percent, r.memory_bytes, r.disk_io_ops,
                InsertAll({}, r.tags))

\* what the reading side can obtain for one metric, over the iteration orders
CapnpTransferMetric(m) ==
    {CapnpReadMetric(CapnpBuildMetric(m, tagList)) : tagList \in Orders(m.tags)}

\* what the reading side can obtain for a list of metrics
CapnpTransferMetrics(ms) ==
    Product([i \in 1..Len(ms) |-> CapnpTransferMetric(ms[i])])

\* the MetricQuery builder: set_hostname_filter only for Some
CapnpBuildQuery(q) ==
    [start_time |-> q.start_time, end_time |-> q.end_time,
     hostname_filter |-> IF q.hostname_filter.tag = "Some"
                         THEN [null |-> FALSE, text |-> q.hostname_filter.val]
                         ELSE [null |-> TRUE]]

\* the server's reading of the query: has_hostname_filter() is "not null"
CapnpReadQuery(r) ==
    MetricQuery(r.start_time, r.end_time,
                IF ~r.hostname_filter.null THEN Some(r.hostname_filter.text) ELSE None)

\* the statistics builder filled by the server and read by the client
CapnpBuildStats(st) ==
    [count |-> st.count, avg_cpu_percent |-> st.avg_cpu_percent,
     avg_memory_bytes |-> st.avg_memory_bytes, avg_disk_io_ops |-> st.avg_disk_io_ops,
     time_range_seconds |-> st.time_range_seconds]
CapnpReadStats(r) ==
    [count |-> r.count, avg_cpu_percent |-> r.avg_cpu_percent,
     avg_memory_bytes |-> r.avg_memory_bytes, avg_disk_io_ops |-> r.avg_disk_io_ops,
     time_range_seconds |-> r.time_range_seconds]

----------------------------------------------------------------------------
(* The adapters: each client call with the server handler it reaches.  An   *)
(* exchange yields the set of outcomes it can have; an outcome is the       *)
(* server's store afterwards, what the handler passed to the store and got  *)
(* back, the response on the wire and the client call's result.             *)

\* the server task panicked: the connection ends without a response
ConnectionClosed == [kind |-> "closed"]

HttpResponse(status, body) == [kind |-> "http", status |-> status, body |-> body]
NoBody == "<empty>"

\* response.status().is_success()
IsSuccess(status) == status >= 200 /\ status <= 299

\* anyhow::bail!("REST .. failed: {}", response.status())
RestStatusError(what, status) == [kind |-> "anyhow", msg |-> what, status |-> status]
\* the reqwest::Error of send().await?
RestTransportError(detail) == [kind |-> "reqwest::Error", detail |-> detail]

\* the outcome of a client call that sent its request: every client function
\* sends once (one send() / one call / one request.send()) and returns
Outcome(st, passed, storeRes, response, res) ==
    [store |-> st, passed |-> passed, store_res |-> storeRes,
     response |-> response, res |-> res, requests |-> 1]

\* rest-service submit_metric answering 201 whatever the store returned
RestServer_submit_metric_created(st, body) ==
    LET Handler(metric) ==
          LET Answer(r) ==
                [store |-> r.store, passed |-> Some(metric), store_res |-> r.res,
                 response |-> IF r.res.tag = "Panic" THEN ConnectionClosed
                              ELSE HttpResponse(201, NoBody)]
          IN Answer(store_metric(st, metric))
    IN Handler(JsonDecodeMetric(body))

\* rest-service submit_metric: 201 on Ok, 500 on Err
RestServer_submit_metric(st, body) ==
    LET Handler(metric) ==
          LET Answer(r) ==
                [store |-> r.store, passed |-> Some(metric), store_res |-> r.res,
                 response |-> CASE r.res.tag = "Ok" -> HttpResponse(201, NoBody)
                                [] r.res.tag = "Err" -> HttpResponse(500, NoBody)
                                [] r.res.tag = "Panic" -> ConnectionClosed]
          IN Answer(store_metric(st, metric))
    IN Handler(JsonDecodeMetric(body))

\* the status check of the REST client calls treating every response as a success
RestClientResult_unchecked(what, response, value) ==
    IF response.kind = "closed"
    THEN Err(RestTransportError("connection closed before message completed"))
    ELSE Ok(value)

\* the REST client calls after send(): an error for no response, an error
\* carrying the status for a non-success status, else the decoded value
RestClientResult(what, response, value) ==
    IF response.kind = "closed"
    THEN Err(RestTransportError("connection closed before message completed"))
    ELSE IF ~IsSuccess(response.status)
    THEN Err(RestStatusError(what, response.status))
    ELSE Ok(value)

\* rest_client::submit_metric sending the metric again after a failed attempt
RestSubmit_resend(st, metric) ==
    {IF sv.response.kind = "http" /\ IsSuccess(sv.response.status)
     THEN Outcome(sv.store, sv.passed, sv.store_res, sv.response, Ok(Unit))
     ELSE [Outcome(again.store, again.passed, again.store_res, again.response,
                   RestClientResult("REST submit failed", again.response, Unit))
             EXCEPT !.requests = 2] :
        sv \in {RestServer_submit_metric(st, JsonEncodeMetric(metric))},
        again \in {RestServer_submit_metric(
                      RestServer_submit_metric(st, JsonEncodeMetric(metric)).store,
                      JsonEncodeMetric(metric))}}

\* rest_client::submit_metric against rest-service submit_metric
RestSubmit(st, metric) ==
    {Outcome(sv.store, sv.passed, sv.store_res, sv.response,
             RestClientResult("REST submit failed", sv.response, Unit)) :
        sv \in {RestServer_submit_metric(st, JsonEncodeMetric(metric))}}

\* rest-service query_metrics: 400 when the query string is rejected, 200
\* with the JSON array on Ok, 500 on Err
RestServer_query_metrics(st, queryString) ==
    LET Handler(query) ==
          LET Answer(r) ==
                [store |-> st, passed |-> Some(query), store_res |-> r,
                 response |-> IF r.tag = "Ok"
                              THEN HttpResponse(200, JsonEncodeMetrics(r.val))
                              ELSE HttpResponse(500, NoBody)]
          IN Answer(query_metrics(st, query))
        Extracted(params) ==
          IF params.tag = "Err"
          THEN [store |-> st, passed |-> None, store_res |-> None,
                response |-> HttpResponse(400, NoBody)]
          ELSE Handler(MetricQuery(params.val.start_time, params.val.end_time,
                                   params.val.hostname_filter))
    IN Extracted(RestExtractQueryParams(queryString))

\* rest_client::query_metrics against rest-service query_metrics
RestQuery(st, query) ==
    {Outcome(sv.store, sv.passed, sv.store_res, sv.response,
             RestClientResult("REST query failed", sv.response,
                 IF sv.response.kind = "http" /\ IsSuccess(sv.response.status)
                 THEN JsonDecodeMetrics(sv.response.body) ELSE << >>)) :
        sv \in {RestServer_query_metrics(st, UrlParseQuery(RestFormatQuery(query)))}}

\* rest-service get_statistics
RestServer_get_statistics(st, queryString) ==
    LET Handler(query) ==
          LET Answer(r) ==
                [store |-> st, passed |-> Some(query), store_res |-> r,
                 response |-> CASE r.tag = "Ok" -> HttpResponse(200, JsonEncodeStats(r.val))
                                [] r.tag = "Err" -> HttpResponse(500, NoBody)
                                [] r.tag = "Panic" -> ConnectionClosed]
          IN Answer(calculate_statistics(st, query))
        Extracted(params) ==
          IF params.tag = "Err"
          THEN [store |-> st, passed |-> None, store_res |-> None,
                response |-> HttpResponse(400, NoBody)]
          ELSE Handler(MetricQuery(params.val.start_time, params.val.end_time,
                                   params.val.hostname_filter))
    IN Extracted(RestExtractQueryParams(queryString))

\* rest_client::get_statistics against rest-service get_statistics
RestStatistics(st, query) ==
    {Outcome(sv.store, sv.passed, sv.store_res, sv.response,
             RestClientResult("REST statistics failed", sv.response,
                 IF sv.response.kind = "http" /\ IsSuccess(sv.response.status)
                 THEN JsonDecodeStats(sv.response.body) ELSE Unit)) :
        sv \in {RestServer_get_statistics(st, UrlParseQuery(RestFormatQuery(query)))}}

\* ---- gRPC

GrpcResponse(message) == [kind |-> "grpc", code |-> "Ok", message |-> message]
\* Status::internal(message)
GrpcStatus(code, message) == [kind |-> "grpc", code |-> code, message |-> message]
\* the tonic::Status a client call's `?` turns into the anyhow error
GrpcStatusError(code, message) == [kind |-> "tonic::Status", code |-> code, message |-> message]
\* the codes tonic gives a call whose connection ended under it
GrpcBrokenCodes == {"Unknown", "Unavailable", "Internal", "Cancelled"}

\* the gRPC client calls after the request: the status as an error, or the value
GrpcClientResults(response, value) ==
    IF response.kind = "closed"
    THEN {Err(GrpcStatusError(c, "transport error")) : c \in GrpcBrokenCodes}
    ELSE IF response.code # "Ok"
    THEN {Err(GrpcStatusError(response.code, response.message))}
    ELSE {Ok(value)}

\* the Empty message
ProtoEmpty == << >>

\* grpc-service submit_metric
GrpcServer_submit_metric(st, wire) ==
    LET Handler(metric) ==
          LET Answer(r) ==
                [store |-> r.store, passed |-> Some(metric), store_res |-> r.res,
                 response |-> CASE r.res.tag = "Ok" -> GrpcResponse(ProtoEmpty)
                                [] r.res.tag = "Err" ->
                                       GrpcStatus("Internal", "Failed to store metric")
                                [] r.res.tag = "Panic" -> ConnectionClosed]
          IN Answer(store_metric(st, metric))
    IN Handler(FromProtoMetric(ProstDecodeMetric(wire)))

\* grpc_client::submit_metric against grpc-service submit_metric
GrpcSubmit(st, metric) ==
    UNION {{Outcome(sv.store, sv.passed, sv.store_res, sv.response, res) :
                res \in GrpcClientResults(sv.response, Unit)} :
           sv \in {GrpcServer_submit_metric(st, ProstEncodeMetric(ToProtoMetric(metric)))}}

\* grpc-service get_statistics
GrpcServer_get_statistics(st, wire) ==
    LET Handler(query) ==
          LET Answer(r) ==
                [store |-> st, passed |-> Some(query), store_res |-> r,
                 response |-> CASE r.tag = "Ok" ->
                                       GrpcResponse(ProstEncodeStats(ToProtoStats(r.val)))
                                [] r.tag = "Err" ->
                                       GrpcStatus("Internal", "Failed to calculate statistics")
                                [] r.tag = "Panic" -> ConnectionClosed]
          IN Answer(calculate_statistics(st, query))
    IN Handler(FromProtoQuery(ProstDecodeQuery(wire)))

\* grpc_client::get_statistics against grpc-service get_statistics
GrpcStatistics(st, query) ==
    UNION {{Outcome(sv.store, sv.passed, sv.store_res, sv.response, res) :
                res \in GrpcClientResults(sv.response,
                    IF sv.response.kind = "grpc" /\ sv.response.code = "Ok"
                    THEN FromProtoStats(ProstDecodeStats(sv.response.message)) ELSE Unit)} :
           sv \in {GrpcServer_get_statistics(st, ProstEncodeQuery(ToProtoQuery(query)))}}

\* ---- Cap'n Proto

CapnpResults(value) == [kind |-> "capnp", ok |-> TRUE, results |-> value]
\* Promise::err(capnp::Error::failed(message))
CapnpException(message) == [kind |-> "capnp", ok |-> FALSE, message |-> message]
\* the capnp::Error of request.send().promise.await?
CapnpError(variant, description) ==
    [kind |-> "capnp::Error", variant |-> variant, description |-> description]
\* the std::io::Error of TcpStream::connect(..).await?
IoError(detail) == [kind |-> "std::io::Error", detail |-> detail]

\* the Cap'n Proto client calls after send(): the remote exception or the
\* disconnect as an error, or one of the values the reader can yield
CapnpClientResults(response, values) ==
    IF response.kind = "closed"
    THEN {Err(CapnpError("Disconnected", "Peer disconnected."))}
    ELSE IF ~response.ok
    THEN {Err(CapnpError("Failed", response.message))}
    ELSE {Ok(v) : v \in values}

\* capnp-service submit_metric
CapnpServer_submit_metric(st, params) ==
    LET Handler(metric) ==
          LET Answer(r) ==
                [store |-> r.store, passed |-> Some(metric), store_res |-> r.res,
                 response |-> CASE r.res.tag = "Ok" -> CapnpResults(Unit)
                                [] r.res.tag = "Err" -> CapnpException("Failed to store metric")
                                [] r.res.tag = "Panic" -> ConnectionClosed]
          IN Answer(store_metric(st, metric))
    IN Handler(CapnpReadMetric(params))

\* capnp_client::submit_metric against capnp-service submit_metric
CapnpSubmit(st, metric) ==
    UNION {{Outcome(sv.store, sv.passed, sv.store_res, sv.response, res) :
                res \in CapnpClientResults(sv.response, {Unit})} :
           sv \in {CapnpServer_submit_metric(st, CapnpBuildMetric(metric, tagList)) :
                      tagList \in Orders(metric.tags)}}

\* capnp-service query_metrics
CapnpServer_query_metrics(st, params) ==
    LET Handler(query) ==
          LET Answer(r) ==
                [store |-> st, passed |-> Some(query), store_res |-> r,
                 response |-> IF r.tag = "Ok" THEN CapnpResults(r.val)
                              ELSE CapnpException("Failed to query metrics")]
          IN Answer(query_metrics(st, query))
    IN Handler(CapnpReadQuery(params))

\* capnp_client::query_metrics against capnp-service query_metrics; the
\* result list is built by the server and read back by the client
CapnpQuery(st, query) ==
    UNION {{Outcome(sv.store, sv.passed, sv.store_res, sv.response, res) :
                res \in CapnpClientResults(sv.response,
                    IF sv.response.kind = "capnp" /\ sv.response.ok
                    THEN CapnpTransferMetrics(sv.response.results) ELSE {})} :
           sv \in {CapnpServer_query_metrics(st, CapnpBuildQuery(query))}}

\* capnp-service get_statistics
CapnpServer_get_statistics(st, params) ==
    LET Handler(query) ==
          LET Answer(r) ==
                [store |-> st, passed |-> Some(query), store_res |-> r,
                 response |-> CASE r.tag = "Ok" -> CapnpResults(CapnpBuildStats(r.val))
                                [] r.tag = "Err" ->
                                       CapnpException("Failed to calculate statistics")
                                [] r.tag = "Panic" -> ConnectionClosed]
          IN Answer(calculate_statistics(st, query))
    IN Handler(CapnpReadQuery(params))

\* capnp_client::get_statistics against capnp-service get_statistics
CapnpStatistics(st, query) ==
    UNION {{Outcome(sv.store, sv.passed, sv.store_res, sv.response, res) :
                res \in CapnpClientResults(sv.response,
                    IF sv.response.kind = "capnp" /\ sv.response.ok
                    THEN {CapnpReadStats(sv.response.results)} ELSE {})} :
           sv \in {CapnpServer_get_statistics(st, CapnpBuildQuery(query))}}

\* ---- gRPC QueryMetrics: the server-streaming call.  The handler hands the
\* query result to a spawned producer task that sends it, one message per
\* metric, into a bounded channel; the transport forwards the channel to the
\* wire and ends the stream when the channel is closed and drained; the
\* client reads messages until the stream ends.

\* the stream right after the handler returned
NewStream(metrics) ==
    [state |-> "open", snapshot |-> metrics, next |-> 1, tx_open |-> TRUE,
     rx_open |-> TRUE,
     chan |-> << >>, wire |-> << >>, wire_closed |-> FALSE, received |-> << >>]

\* a producer that uses try_send: a metric that finds the channel full is dropped
ProducerStep_try_send(s) ==
    IF ~s.tx_open THEN {}
    ELSE IF s.next > Len(s.snapshot) THEN {[s EXCEPT !.tx_open = FALSE]}
    ELSE IF Len(s.chan) < ChannelCapacity
    THEN {[s EXCEPT !.chan = Append(@, ToProtoMetric(s.snapshot[s.next])),
                    !.next = @ + 1]}
    ELSE {[s EXCEPT !.next = @ + 1]}

\* a producer whose send does not notice that the receiver is gone
ProducerStep_unaware(s) ==
    IF ~s.tx_open THEN {}
    ELSE IF s.next > Len(s.snapshot) THEN {[s EXCEPT !.tx_open = FALSE]}
    ELSE IF Len(s.chan) < ChannelCapacity
    THEN {[s EXCEPT !.chan = Append(@, ToProtoMetric(s.snapshot[s.next])),
                    !.next = @ + 1]}
    ELSE {}

\* one step of the producer task: tx.send(Ok(proto_metric)).await of the next
\* metric once the channel has a free slot; after the last metric the task
\* ends and drops tx; a send that finds the receiver dropped fails, waiting
\* for a slot or not, and the loop breaks (`is_err() { break }`), which ends
\* the task too.  No step while the channel is full and the receiver alive.
ProducerStep(s) ==
    IF ~s.tx_open THEN {}
    ELSE IF s.next > Len(s.snapshot) THEN {[s EXCEPT !.tx_open = FALSE]}
    ELSE IF ~s.rx_open THEN {[s EXCEPT !.tx_open = FALSE]}
    ELSE IF Len(s.chan) < ChannelCapacity
    THEN {[s EXCEPT !.chan = Append(@, ToProtoMetric(s.snapshot[s.next])),
                    !.next = @ + 1]}
    ELSE {}

\* one step of the server transport polling the ReceiverStream: the next
\* message of the channel goes onto the wire, or, the channel being empty and
\* its sender dropped, the stream is ended; when the client has dropped the
\* stream the response body, the ReceiverStream, is dropped and with it
\* what the channel held
TransportStep(s) ==
    IF s.state = "dropped"
    THEN (IF s.rx_open
          THEN {[s EXCEPT !.rx_open = FALSE, !.chan = << >>, !.wire = << >>]}
          ELSE {})
    ELSE IF s.chan # << >>
    THEN {[s EXCEPT !.wire = Append(@, ProstEncodeMetric(Head(s.chan))),
                    !.chan = Tail(@)]}
    ELSE IF ~s.tx_open /\ ~s.wire_closed THEN {[s EXCEPT !.wire_closed = TRUE]}
    ELSE {}

\* one turn of the client's `while let Some(metric) = stream.message().await?`:
\* a message is converted and pushed, the end of the stream ends the loop
ClientStep(s) ==
    IF s.state # "open" THEN {}
    ELSE IF s.wire # << >>
    THEN {[s EXCEPT !.received = Append(@, FromProtoMetric(ProstDecodeMetric(Head(s.wire)))),
                    !.wire = Tail(@)]}
    ELSE IF s.wire_closed THEN {[s EXCEPT !.state = "done"]}
    ELSE {}

\* the client gives the stream up before its end: `stream.message().await?`
\* returns the transport's error, or the call's future is dropped
ClientDropStep(s) ==
    IF s.state = "open"
    THEN {[s EXCEPT !.state = "dropped", !.received = << >>]}
    ELSE {}

\* the stream run to the end of the client's loop
RECURSIVE RunStream(_)
RunStream(s) ==
    IF s.state = "done" THEN s
    ELSE LET steps == ProducerStep(s) \union TransportStep(s) \union ClientStep(s)
         IN RunStream(CHOOSE t \in steps : TRUE)

\* grpc-service query_metrics: an internal status when the store fails, else
\* the response carrying the stream, its producer spawned with the result
GrpcServer_query_metrics(st, wire) ==
    LET Handler(query) ==
          LET Answer(r) ==
                [store |-> st, passed |-> Some(query), store_res |-> r,
                 response |-> IF r.tag = "Ok" THEN GrpcResponse("stream")
                              ELSE GrpcStatus("Internal", "Failed to query metrics"),
                 stream |-> IF r.tag = "Ok" THEN NewStream(r.val) ELSE [state |-> "none"]]
          IN Answer(query_metrics(st, query))
    IN Handler(FromProtoQuery(ProstDecodeQuery(wire)))

\* grpc_client::query_metrics against grpc-service query_metrics, the stream
\* drained with no other call in between
GrpcQuery(st, query) ==
    UNION {{Outcome(sv.store, sv.passed, sv.store_res, sv.response, res) :
                res \in GrpcClientResults(sv.response,
                    IF sv.stream.state = "open" THEN RunStream(sv.stream).received
                    ELSE << >>)} :
           sv \in {GrpcServer_query_metrics(st, ProstEncodeQuery(ToProtoQuery(query)))}}

----------------------------------------------------------------------------
(* Spec: the three server processes, each with the InMemoryStorage its main *)
(* creates, and the client calls of the benchmarks crate, one at a time.    *)

\* the metrics the clients submit: one with a hostname that holds a '&' and
\* two tags, one with every field at its default (empty hostname, no tags)
SysMetrics ==
    { MetricPoint(0, <<"w", "&">>, 1, 1, 1, {<<"env", "prod">>, <<"region", "us-east">>}),
      MetricPoint(0, EmptyString, 0, 0, 0, {}) }

\* the queries the clients send: a range covering every submitted metric with
\* no filter, with each submitted hostname as the filter and with a hostname
\* that was never submitted, and the widest range there is
SysQueries ==
    { MetricQuery(0, 1, f) :
        f \in {None, Some(<<"w", "&">>), Some(EmptyString), Some(<<"x">>)} }
    \union {MetricQuery(I64Min, I64Max, None)}

\* the exchange of one client call with its server
Exchange(a, op, st, arg) ==
    CASE a = "rest" /\ op = "submit" -> RestSubmit(st, arg)
      [] a = "rest" /\ op = "query" -> RestQuery(st, arg)
      [] a = "rest" /\ op = "statistics" -> RestStatistics(st, arg)
      [] a = "grpc" /\ op = "submit" -> GrpcSubmit(st, arg)
      [] a = "grpc" /\ op = "query" -> GrpcQuery(st, arg)
      [] a = "grpc" /\ op = "statistics" -> GrpcStatistics(st, arg)
      [] a = "capnp" /\ op = "submit" -> CapnpSubmit(st, arg)
      [] a = "capnp" /\ op = "query" -> CapnpQuery(st, arg)
      [] a = "capnp" /\ op = "statistics" -> CapnpStatistics(st, arg)

\* what a client call returns when its server cannot be reached: the error
\* of send() (REST), of connect() or of the call on an established channel
\* (gRPC), of TcpStream::connect (Cap'n Proto)
ConnectErrors(a) ==
    CASE a = "rest" -> {RestTransportError("error trying to connect")}
      [] a = "grpc" -> {[kind |-> "tonic::transport::Error", detail |-> "transport error"]}
                       \union {GrpcStatusError(c, "error trying to connect") :
                                  c \in {"Unavailable", "Unknown"}}
      [] a = "capnp" -> {IoError("Connection refused")}

Init ==
    /\ overflow_checks \in BOOLEAN
    /\ storage = [a \in Adapters |-> NewStorage]
    /\ last = [op |-> "none"]
    /\ stream = NoStream
    /\ bench = NoBench
    /\ InitClientProcess
    /\ InitServerProcesses
    /\ InitLock
    /\ harness = NoHarness

\* one client call whose server writes its store into every process
Call_one_store(a, op, arg) ==
    /\ \E o \in Exchange(a, op, storage[a], arg) :
          /\ storage' = [b \in Adapters |-> o.store]
          /\ last' = [op |-> op, adapter |-> a, arg |-> arg, net |-> "ok",
                      pre |-> storage[a], passed |-> o.passed, store_res |-> o.store_res,
                      response |-> o.response, res |-> o.res, requests |-> o.requests]
    /\ UNCHANGED <<overflow_checks, moreVars, bench, clientVars, stream>>

\* a client call reaching its server: the exchange runs on that server's store
Call(a, op, arg) ==
    /\ \E o \in Exchange(a, op, storage[a], arg) :
          /\ storage' = [storage EXCEPT ![a] = o.store]
          /\ last' = [op |-> op, adapter |-> a, arg |-> arg, net |-> "ok",
                      pre |-> storage[a], passed |-> o.passed, store_res |-> o.store_res,
                      response |-> o.response, res |-> o.res, requests |-> o.requests]
    /\ UNCHANGED <<overflow_checks, moreVars, bench, clientVars, stream>>

\* the client calls, each made when no call is in progress
ClientSubmit(a, metric) == Idle /\ Call(a, "submit", metric)
ClientQuery(a, query) == Idle /\ Call(a, "query", query)
ClientStatistics(a, query) == Idle /\ Call(a, "statistics", query)

\* a client call whose server cannot be reached: nothing is sent
Refused(a, op) ==
    /\ \E e \in ConnectErrors(a) :
          last' = [op |-> op, adapter |-> a, net |-> "refused", pre |-> storage[a],
                   res |-> Err(e), requests |-> 0]
    /\ UNCHANGED <<overflow_checks, moreVars, bench, clientVars, storage, stream>>

ConnectFails(a, op) == Idle /\ Refused(a, op)

Next ==
    \/ \E a \in Adapters, metric \in SysMetrics : ClientSubmit(a, metric)
    \/ \E a \in Adapters, query \in SysQueries : ClientQuery(a, query)
    \/ \E a \in Adapters, query \in SysQueries : ClientStatistics(a, query)
    \/ \E a \in Adapters, op \in {"submit", "query", "statistics"} : ConnectFails(a, op)
    \/ Return

Spec == Init /\ [][Next]_vars

----------------------------------------------------------------------------
(* SpecStream: the gRPC server process; one client runs a streaming query   *)
(* step by step while other clients submit.                                 *)

\* grpc_client::query_metrics sends the request and the handler answers:
\* the stream is open, or the call has failed with the handler's status
StreamOpen(query) ==
    /\ stream.state = "none"
    /\ \E sv \in {GrpcServer_query_metrics(storage["grpc"],
                                           ProstEncodeQuery(ToProtoQuery(query)))} :
          stream' = IF sv.stream.state = "open"
                    THEN sv.stream @@ [query |-> query, pre |-> storage["grpc"]]
                    ELSE [state |-> "failed",
                          res |-> Err(GrpcStatusError(sv.response.code, sv.response.message))]
    /\ UNCHANGED <<overflow_checks, moreVars, bench, clientVars, storage, last>>

\* a producer that reads the store again for every message it sends
Producer_live ==
    /\ stream.state \in {"open", "dropped"}
    /\ \E t \in ProducerStep([stream EXCEPT !.snapshot =
                                  query_metrics(storage["grpc"], stream.query).val]) :
          stream' = [t EXCEPT !.snapshot = stream.snapshot]
    /\ UNCHANGED <<overflow_checks, moreVars, bench, clientVars, storage, last>>

Producer ==
    /\ stream.state \in {"open", "dropped"}
    /\ \E t \in ProducerStep(stream) : stream' = t
    /\ UNCHANGED <<overflow_checks, moreVars, bench, clientVars, storage, last>>

Transport ==
    /\ stream.state \in {"open", "dropped"}
    /\ \E t \in TransportStep(stream) : stream' = t
    /\ UNCHANGED <<overflow_checks, moreVars, bench, clientVars, storage, last>>

Client ==
    /\ stream.state = "open"
    /\ \E t \in ClientStep(stream) : stream' = t
    /\ UNCHANGED <<overflow_checks, moreVars, bench, clientVars, storage, last>>

ClientAbandon ==
    /\ stream.state = "open"
    /\ \E t \in ClientDropStep(stream) : stream' = t
    /\ UNCHANGED <<overflow_checks, moreVars, bench, clientVars, storage, last>>

\* the client call has returned (Ok(metrics) or the error) and nothing of
\* its stream is left on the server
StreamReturn ==
    /\ \/ stream.state \in {"done", "failed"}
       \/ stream.state = "dropped" /\ ~stream.tx_open /\ ~stream.rx_open
    /\ stream' = NoStream
    /\ UNCHANGED <<overflow_checks, moreVars, bench, clientVars, storage, last>>

NextStream ==
    \/ \E metric \in SysMetrics : ClientSubmit("grpc", metric)
    \/ Return
    \/ \E query \in SysQueries : StreamOpen(query)
    \/ Producer
    \/ Transport
    \/ Client
    \/ ClientAbandon
    \/ StreamReturn

SpecStream == Init /\ [][NextStream]_vars

\* the producer task, the server's transport and the client's loop are
\* each scheduled again and again
SpecStreamFair ==
    SpecStream /\ WF_vars(Producer) /\ WF_vars(Transport) /\ WF_vars(Client)

----------------------------------------------------------------------------
(* SpecBench: benchmarks/src/lib.rs generate_test_data and the query        *)
(* benchmark of benches/protocol_bench.rs against freshly started servers.  *)

\* the offsets rng.gen_range(0..3600) can draw for the metrics of one run
GenOffsets == [1..GenCount -> 0..(OffsetRange - 1)]

\* what the generator draws for a metric besides the timestamp offset; the
\* generator is seeded, so every invocation draws the same
GenHostname == <<"w">>
GenTags == {<<"env", "prod">>, <<"region", "us-east">>,
            <<"service", "cache">>, <<"version", "v1.0.0">>}

\* generate_test_data(count) invoked when the wall clock reads `now`, the
\* seeded generator drawing `offsets`: the i-th metric (from 0) has
\* timestamp base_timestamp - offset + i
generate_test_data(count, now, offsets) ==
    [n \in 1..count |->
        MetricPoint(now - offsets[n] + (n - 1), GenHostname, 1, 1, 1, GenTags)]

\* the order in which the setup loop submits each metric
PopulateOrder == <<"rest", "grpc", "capnp">>

\* the query of the benchmark: first.timestamp - 100 to last.timestamp + 100
BenchQueryOf(setup_metrics) ==
    MetricQuery(setup_metrics[1].timestamp - QuerySlack,
                setup_metrics[Len(setup_metrics)].timestamp + QuerySlack,
                None)

\* let setup_metrics = generate_test_data(20)
BenchGenerate(now, offsets) ==
    /\ bench.pc = "none"
    /\ Idle
    /\ bench' = [pc |-> "populate", now |-> now, offsets |-> offsets,
                 setup_metrics |-> generate_test_data(GenCount, now, offsets),
                 i |-> 1, k |-> 1, dropped |-> FALSE]
    /\ UNCHANGED <<overflow_checks, moreVars, clientVars, storage, last, stream>>

\* the setup loop calls submit_metric of the next service for the next metric
BenchSubmit ==
    /\ bench.pc = "populate"
    /\ Idle
    /\ \/ Call(PopulateOrder[bench.k], "submit", bench.setup_metrics[bench.i])
       \/ Refused(PopulateOrder[bench.k], "submit")

\* `let _ = ..submit_metric(..).await;`: the result is discarded, whatever it
\* is, and the loop goes on; after the last metric the query is built
BenchDiscard ==
    /\ bench.pc = "populate"
    /\ last.op = "submit"
    /\ last' = [op |-> "none"]
    /\ bench' =
         LET noted == [bench EXCEPT !.dropped = @ \/ last.res.tag = "Err"]
         IN IF bench.k < Len(PopulateOrder) THEN [noted EXCEPT !.k = @ + 1]
            ELSE IF bench.i < Len(bench.setup_metrics)
            THEN [noted EXCEPT !.i = @ + 1, !.k = 1]
            ELSE [pc |-> "measure", now |-> bench.now, offsets |-> bench.offsets,
                  setup_metrics |-> bench.setup_metrics, dropped |-> noted.dropped,
                  query |-> BenchQueryOf(bench.setup_metrics)]
    /\ UNCHANGED <<overflow_checks, moreVars, clientVars, storage, stream>>

\* a measured iteration: query_metrics or get_statistics of one service with
\* the benchmark's query
BenchMeasure(a, op) ==
    /\ bench.pc = "measure"
    /\ Idle
    /\ \/ Call(a, op, bench.query)
       \/ Refused(a, op)

\* `.await.unwrap()` of a measured call: the value on Ok, a panic on Err
BenchUnwrap ==
    /\ bench.pc = "measure"
    /\ last.op \in {"query", "statistics"}
    /\ last' = [op |-> "none"]
    /\ bench' = IF last.res.tag = "Ok" THEN bench ELSE [bench EXCEPT !.pc = "panicked"]
    /\ UNCHANGED <<overflow_checks, moreVars, clientVars, storage, stream>>

\* the next benchmark function calls generate_test_data(20) again ("use the
\* same data as query benchmark"), the wall clock reading `now`
BenchRegenerate(now) ==
    /\ bench.pc = "measure"
    /\ Idle
    /\ now >= bench.now
    /\ bench' = [pc |-> "next", now |-> bench.now, offsets |-> bench.offsets,
                 setup_metrics |-> bench.setup_metrics,
                 regenerated_at |-> now,
                 regenerated |-> generate_test_data(GenCount, now, bench.offsets)]
    /\ UNCHANGED <<overflow_checks, moreVars, clientVars, storage, last, stream>>

NextBench ==
    \/ \E now \in 0..ClockMax, offsets \in GenOffsets : BenchGenerate(now, offsets)
    \/ BenchSubmit
    \/ BenchDiscard
    \/ \E a \in Adapters, op \in {"query", "statistics"} : BenchMeasure(a, op)
    \/ BenchUnwrap
    \/ \E now \in 0..ClockMax : BenchRegenerate(now)

SpecBench == Init /\ [][NextBench]_vars

----------------------------------------------------------------------------
(* SpecClients: the connections of one client process, benchmarks/src/      *)
(* grpc_client.rs get_client (a process-wide OnceLock) and capnp_client.rs  *)
(* create_client, with two tasks calling the client functions concurrently. *)
(* A client function is a sequence of steps separated by its awaits.        *)

ClientOps == {"submit", "query", "statistics"}

\* a connection the process opened: who opened it, whether it is still held,
\* and how many requests were sent on it
Connection(a, t) == [adapter |-> a, opener |-> t, open |-> TRUE, requests |-> 0]

\* a call in progress: chan is the connection it holds (0: none), attempts
\* the connects it tried, opened the connections it opened
NewCall(a, op) ==
    [pc |-> "connect", adapter |-> a, op |-> op, chan |-> 0,
     attempts |-> 0, opened |-> 0, sent |-> FALSE, res |-> None, polled |-> {}]

\* a capnp client that hands its RpcSystem to the runtime's pool
ClientSpawn_pool == "pool"

\* where capnp create_client puts the RpcSystem of its connection:
\* tokio::task::spawn_local, on the LocalSet the call runs in
ClientSpawn == "local"

\* who polls the connection of call t when its request is sent, as <<thread,
\* task queue>>: for a Cap'n Proto call the LocalSet of the call, on the
\* caller's thread, or the pool's workers for a task spawned on the runtime
ConnectionPolls(t) ==
    IF calls[t].adapter # "capnp" THEN {{}}
    ELSE IF ClientSpawn = "local" THEN {{<<CallerThread[t], t>>}}
    ELSE {{<<w, "pool">>} : w \in PoolWorkers}

\* a capnp client that keeps one connection and hands it to every call
create_client_pooled(conns, t) ==
    IF \E c \in 1..Len(conns) : conns[c].adapter = "capnp" /\ conns[c].open
    THEN [connections |-> conns, opened |-> 0,
          chan |-> CHOOSE c \in 1..Len(conns) : conns[c].adapter = "capnp" /\ conns[c].open]
    ELSE [connections |-> Append(conns, Connection("capnp", t)), opened |-> 1,
          chan |-> Len(conns) + 1]

\* capnp create_client, TcpStream::connect succeeding: a new connection
create_client(conns, t) ==
    [connections |-> Append(conns, Connection("capnp", t)), opened |-> 1,
     chan |-> Len(conns) + 1]

\* get_client, first statement: `if let Some(client) = CLIENT.get()`
GrpcGetClient(t, op) ==
    /\ calls[t].pc = "idle"
    /\ calls' = [calls EXCEPT ![t] =
                   IF CLIENT # None
                   THEN [NewCall("grpc", op) EXCEPT !.pc = "send", !.chan = CLIENT.val]
                   ELSE NewCall("grpc", op)]
    /\ UNCHANGED <<overflow_checks, moreVars, bench, storage, last, stream, CLIENT, connections>>

\* get_client: Channel::from_static(..).connect().await?
GrpcConnect(t) ==
    /\ calls[t].pc = "connect"
    /\ calls[t].adapter = "grpc"
    /\ \/ /\ Len(connections) < MaxConnections
          /\ connections' = Append(connections, Connection("grpc", t))
          /\ calls' = [calls EXCEPT ![t].pc = "set", ![t].attempts = 1, ![t].opened = 1,
                                    ![t].chan = Len(connections) + 1]
       \/ /\ \E e \in {x \in ConnectErrors("grpc") : x.kind = "tonic::transport::Error"} :
                calls' = [calls EXCEPT ![t].pc = "done", ![t].attempts = 1, ![t].res = Err(e)]
          /\ UNCHANGED connections
    /\ UNCHANGED <<overflow_checks, moreVars, bench, storage, last, stream, CLIENT>>

\* get_client: CLIENT.set(client).map_err(|_| anyhow!("Failed to set client"))?
\* then Ok(CLIENT.get().unwrap()); a client that was not stored is dropped
GrpcSet(t) ==
    /\ calls[t].pc = "set"
    /\ IF CLIENT = None
       THEN /\ CLIENT' = Some(calls[t].chan)
            /\ calls' = [calls EXCEPT ![t].pc = "send"]
            /\ UNCHANGED connections
       ELSE /\ calls' = [calls EXCEPT ![t].pc = "done", ![t].chan = 0,
                                      ![t].res = Err(<<"Failed to set client">>)]
            /\ connections' = [connections EXCEPT ![calls[t].chan].open = FALSE]
            /\ UNCHANGED CLIENT
    /\ UNCHANGED <<overflow_checks, moreVars, bench, storage, last, stream>>

\* capnp submit_metric / query_metrics / get_statistics, first statement:
\* `let (client, _handle) = create_client().await?`
CapnpCreateClient(t, op) ==
    /\ calls[t].pc = "idle"
    /\ \/ /\ Len(connections) < MaxConnections
          /\ \E c \in {create_client(connections, t)} :
                /\ connections' = c.connections
                /\ calls' = [calls EXCEPT ![t] =
                               [NewCall("capnp", op) EXCEPT !.pc = "send", !.attempts = 1,
                                                            !.opened = c.opened, !.chan = c.chan]]
       \/ /\ \E e \in ConnectErrors("capnp") :
                calls' = [calls EXCEPT ![t] =
                            [NewCall("capnp", op) EXCEPT !.pc = "done", !.attempts = 1,
                                                         !.res = Err(e)]]
          /\ UNCHANGED connections
    /\ UNCHANGED <<overflow_checks, moreVars, bench, storage, last, stream, CLIENT>>

\* the request goes out on the connection the call holds and the call gets
\* its answer: the value, or the failure the server or the transport reports
ClientSend(t) ==
    /\ calls[t].pc = "send"
    /\ connections[calls[t].chan].requests < MaxRequests
    /\ connections' = [connections EXCEPT ![calls[t].chan].requests = @ + 1]
    /\ \E r \in {Ok(Unit), Err(<<"request failed">>)}, polls \in ConnectionPolls(t) :
          calls' = [calls EXCEPT ![t].pc = "done", ![t].sent = TRUE, ![t].res = r,
                                 ![t].polled = @ \union polls]
    /\ UNCHANGED <<overflow_checks, moreVars, bench, storage, last, stream, CLIENT>>

\* the client function returns; the capnp call's LocalSet is dropped and with
\* it the RpcSystem task spawned on it, which owns the connection; a task
\* spawned on the runtime would live on.  The gRPC channel stays in CLIENT
ClientReturn(t) ==
    /\ calls[t].pc = "done"
    /\ calls' = [calls EXCEPT ![t] = NoCall]
    /\ connections' =
         IF calls[t].adapter = "capnp" /\ calls[t].chan # 0 /\ ClientSpawn = "local"
         THEN [connections EXCEPT ![calls[t].chan].open = FALSE]
         ELSE connections
    /\ UNCHANGED <<overflow_checks, moreVars, bench, storage, last, stream, CLIENT>>

NextClients ==
    \/ \E t \in Tasks, op \in ClientOps : GrpcGetClient(t, op)
    \/ \E t \in Tasks : GrpcConnect(t)
    \/ \E t \in Tasks : GrpcSet(t)
    \/ \E t \in Tasks, op \in ClientOps : CapnpCreateClient(t, op)
    \/ \E t \in Tasks : ClientSend(t)
    \/ \E t \in Tasks : ClientReturn(t)

SpecClients == Init /\ [][NextClients]_vars

----------------------------------------------------------------------------
(* SpecTasks: a server process (rest-service, grpc-service or capnp-service *)
(* main): its accept loop, the task it starts for each accepted connection, *)
(* the storage reference that task's handlers hold, and the thread of the   *)
(* #[tokio::main] runtime that polls the task.  Server processes are        *)
(* independent; a run follows one of them.                                  *)

\* the threads that poll a server's connection task: a task spawned with
\* spawn_local belongs to the LocalSet and is polled where run_until is,
\* inside main's future; a task spawned on the runtime is polled by the
\* workers of the pool
Pollers(queue) == IF queue = "local" THEN {MainThread} ELSE PoolWorkers

\* a server that hands every connection to the runtime's pool
ServerSpawn_pool(a) == "pool"

\* where the server puts the task of an accepted connection: capnp-service
\* uses tokio::task::spawn_local inside LocalSet::run_until, axum::serve and
\* tonic's Server::serve spawn on the runtime
ServerSpawn(a) == IF a = "capnp" THEN "local" ELSE "pool"

\* a server whose connection task makes a storage of its own
StorageRef_new(a) == "own"

\* the storage a connection's handlers hold: a clone of the Arc made in main
\* (storage.clone(), the shared AppState, the one MetricsServiceImpl)
StorageRef(a) == "shared"

\* the task of a newly accepted connection
ServerConn(a) ==
    [task |-> "running", queue |-> ServerSpawn(a), ref |-> StorageRef(a),
     own |-> NewStorage, polled_by |-> {}, rpc_error |-> FALSE]

\* the storage the handlers of connection c work on
HandlerStorage(a, c) ==
    IF srv[a].conns[c].ref = "shared" THEN storage[a] ELSE srv[a].conns[c].own

\* the accept loop takes a connection and starts its task
ServerAccept(a) ==
    /\ srv[a].accepting
    /\ Len(srv[a].conns) < MaxServerConns
    /\ \A b \in Adapters \ {a} : srv[b].conns = << >>
    /\ srv' = [srv EXCEPT ![a].conns = Append(@, ServerConn(a))]
    /\ UNCHANGED <<overflow_checks, storage, last, stream, bench, clientVars,
                   lock, thr, harness>>

\* a client call arrives over connection c: the connection's task is polled
\* and its handler runs on the storage it holds
ServerRequest(a, c, op, arg) ==
    /\ Idle
    /\ c \in 1..Len(srv[a].conns)
    /\ srv[a].conns[c].task = "running"
    /\ \E th \in Pollers(srv[a].conns[c].queue) :
       \E o \in Exchange(a, op, HandlerStorage(a, c), arg) :
          /\ last' = [op |-> op, adapter |-> a, arg |-> arg, net |-> "ok", conn |-> c,
                      pre |-> HandlerStorage(a, c), passed |-> o.passed,
                      store_res |-> o.store_res, response |-> o.response,
                      res |-> o.res, requests |-> o.requests]
          /\ storage' = IF srv[a].conns[c].ref = "shared"
                        THEN [storage EXCEPT ![a] = o.store] ELSE storage
          /\ srv' = [srv EXCEPT
                       ![a].conns[c].polled_by = @ \union {th},
                       ![a].conns[c].own =
                           IF srv[a].conns[c].ref = "shared" THEN @ ELSE o.store,
                       ![a].origin =
                           IF op = "submit" /\ o.res.tag = "Ok"
                           THEN Append(@, [conn |-> c, metric |-> arg]) ELSE @]
    /\ UNCHANGED <<overflow_checks, stream, bench, clientVars, lock, thr, harness>>

\* the RpcSystem of a Cap'n Proto connection resolves to Err: the task
\* prints "RPC system error" and ends
ServerRpcError(c) ==
    /\ c \in 1..Len(srv["capnp"].conns)
    /\ srv["capnp"].conns[c].task = "running"
    /\ srv' = [srv EXCEPT !["capnp"].conns[c].task = "ended",
                          !["capnp"].conns[c].rpc_error = TRUE]
    /\ UNCHANGED <<overflow_checks, storage, last, stream, bench, clientVars,
                   lock, thr, harness>>

\* the client closes connection c: its task ends
ServerConnClosed(a, c) ==
    /\ c \in 1..Len(srv[a].conns)
    /\ srv[a].conns[c].task = "running"
    /\ srv' = [srv EXCEPT ![a].conns[c].task = "ended"]
    /\ UNCHANGED <<overflow_checks, storage, last, stream, bench, clientVars,
                   lock, thr, harness>>

\* capnp-service: `listener.accept().await?` fails; run_until and main
\* return and the LocalSet is dropped with the tasks still on it
ServerAcceptFails ==
    /\ srv["capnp"].accepting
    /\ srv["capnp"].conns # << >>
    /\ srv' = [srv EXCEPT !["capnp"].accepting = FALSE,
                          !["capnp"].conns =
                              [c \in 1..Len(@) |-> [@[c] EXCEPT !.task = "dropped"]]]
    /\ UNCHANGED <<overflow_checks, storage, last, stream, bench, clientVars,
                   lock, thr, harness>>

\* the metric the client of connection c submits: each connection its own
ConnMetric(c) == MetricPoint(0, <<"w">>, c, c, c, {<<"env", "prod">>})

\* the full range with no filter
CoveringQuery == MetricQuery(I64Min, I64Max, None)

NextTasks ==
    \/ \E a \in Adapters : ServerAccept(a)
    \/ \E a \in Adapters, c \in 1..MaxServerConns :
          ServerRequest(a, c, "submit", ConnMetric(c))
    \/ \E a \in Adapters, c \in 1..MaxServerConns :
          ServerRequest(a, c, "query", CoveringQuery)
    \/ \E c \in 1..MaxServerConns : ServerRpcError(c)
    \/ \E a \in Adapters, c \in 1..MaxServerConns : ServerConnClosed(a, c)
    \/ ServerAcceptFails
    \/ Return

SpecTasks == Init /\ [][NextTasks]_vars

----------------------------------------------------------------------------
(* SpecConfine: the Cap'n Proto connections of one server process and of    *)
(* one client process, and the threads and task queues that poll them.      *)

NextConfine ==
    \/ ServerAccept("capnp")
    \/ \E c \in 1..MaxServerConns : ServerRequest("capnp", c, "query", CoveringQuery)
    \/ \E c \in 1..MaxServerConns : ServerConnClosed("capnp", c)
    \/ Return
    \/ \E t \in Tasks, op \in ClientOps : CapnpCreateClient(t, op)
    \/ \E t \in Tasks : ClientSend(t)
    \/ \E t \in Tasks : ClientReturn(t)

SpecConfine == Init /\ [][NextConfine]_vars

----------------------------------------------------------------------------
(* SpecLock: the threads of a server process inside store_metric,           *)
(* query_metrics and calculate_statistics of its one InMemoryStorage, each  *)
(* method taken apart at the points where it takes and gives up the RwLock. *)

\* the metrics and queries the threads call the store with
LockMetrics ==
    { MetricPoint(0, EmptyString, 1, 1, 1, {}),
      MetricPoint(1, <<"w">>, 2, 3, 3, {<<"env", "prod">>}) }
LockQueries == {MetricQuery(0, 1, Some(<<"w">>))}

StoreOps == {"store_metric", "query_metrics", "calculate_statistics"}
StoreArgs(op) == IF op = "store_metric" THEN LockMetrics ELSE LockQueries

\* a store whose methods all take the lock with read()
LockMode_read(op) == "read"

\* how a method takes the lock: store_metric with write(); query_metrics,
\* and calculate_statistics through it, with read()
LockMode(op) == IF op = "store_metric" THEN "write" ELSE "read"

\* RwLock: write() is granted when nobody holds the lock, read() when no
\* writer holds it
CanLock(lk, mode) ==
    IF mode = "write" THEN lk.writer = None /\ lk.readers = {}
    ELSE lk.writer = None

Locked(lk, t, mode) ==
    IF mode = "write" THEN [lk EXCEPT !.writer = Some(t)]
    ELSE [lk EXCEPT !.readers = @ \union {t}]

\* a guard that is leaked instead of dropped
ReleaseLock_leak(lk, t) == lk

\* the guard of thread t is dropped
ReleaseLock(lk, t) ==
    [writer |-> IF lk.writer = Some(t) THEN None ELSE lk.writer,
     readers |-> lk.readers \ {t}]

\* an aggregate that counts its first query result and averages a second
StatisticsOf_requery(snapshot, st, query) ==
    LET Mix(a, b) == IF a.tag = "Ok" /\ b.tag = "Ok"
                     THEN Ok([b.val EXCEPT !.count = a.val.count]) ELSE a
    IN Mix(calculate_statistics([metrics |-> snapshot, poisoned |-> FALSE], query),
           calculate_statistics(st, query))

\* calculate_statistics after its query_metrics returned: everything is
\* reduced from the one vector `metrics` that call returned
StatisticsOf(snapshot, st, query) ==
    calculate_statistics([metrics |-> snapshot, poisoned |-> FALSE], query)

\* thread t calls a method of the store
StoreInvoke(t, op, arg) ==
    /\ thr[t].pc = "idle"
    /\ thr[t].calls < MaxStoreCalls
    /\ thr' = [thr EXCEPT ![t] =
                 [pc |-> "acquire", calls |-> thr[t].calls + 1, op |-> op, arg |-> arg,
                  inv_len |-> Len(storage[StoreProc].metrics)]]
    /\ UNCHANGED <<overflow_checks, storage, last, stream, bench, clientVars,
                   srv, lock, harness>>

\* self.metrics.write() / .read(): blocks until the lock is granted; on a
\* poisoned lock the guard inside the error is dropped by map_err and the
\* method returns Err("Lock poisoned")
StoreAcquire(t) ==
    /\ thr[t].pc = "acquire"
    /\ CanLock(lock, LockMode(thr[t].op))
    /\ IF storage[StoreProc].poisoned
       THEN /\ thr' = [thr EXCEPT ![t] =
                         [pc |-> "returned", calls |-> thr[t].calls, op |-> thr[t].op,
                          arg |-> thr[t].arg, inv_len |-> thr[t].inv_len,
                          ret_len |-> Len(storage[StoreProc].metrics),
                          res |-> Err("Lock poisoned")]]
            /\ UNCHANGED lock
       ELSE /\ thr' = [thr EXCEPT ![t].pc = "locked"]
            /\ lock' = Locked(lock, t, LockMode(thr[t].op))
    /\ UNCHANGED <<overflow_checks, storage, last, stream, bench, clientVars,
                   srv, harness>>

\* store_metric under its guard: metrics.push(metric); a push that panics
\* unwinds through the write guard, which poisons and releases the lock
StorePush(t) ==
    /\ thr[t].pc = "locked"
    /\ thr[t].op = "store_metric"
    /\ \E r \in {store_metric(storage[StoreProc], thr[t].arg)} :
          /\ storage' = [storage EXCEPT ![StoreProc] = r.store]
          /\ IF r.res.tag = "Panic"
             THEN /\ lock' = ReleaseLock(lock, t)
                  /\ thr' = [thr EXCEPT ![t] =
                               [pc |-> "returned", calls |-> thr[t].calls, op |-> thr[t].op,
                                arg |-> thr[t].arg, inv_len |-> thr[t].inv_len,
                                ret_len |-> Len(storage[StoreProc].metrics),
                                res |-> r.res]]
             ELSE /\ UNCHANGED lock
                  /\ thr' = [thr EXCEPT ![t].pc = "unlock"]
    /\ UNCHANGED <<overflow_checks, last, stream, bench, clientVars, srv, harness>>

\* query_metrics under its guard: the filtered clone of the log
StoreFilter(t) ==
    /\ thr[t].pc = "locked"
    /\ thr[t].op # "store_metric"
    /\ thr' = [thr EXCEPT ![t] =
                 [pc |-> "unlock", calls |-> thr[t].calls, op |-> thr[t].op,
                  arg |-> thr[t].arg, inv_len |-> thr[t].inv_len,
                  snapshot |-> query_metrics(storage[StoreProc], thr[t].arg).val]]
    /\ UNCHANGED <<overflow_checks, storage, last, stream, bench, clientVars,
                   srv, lock, harness>>

\* the guard goes out of scope: store_metric and query_metrics return,
\* calculate_statistics goes on with the vector it got
StoreRelease(t) ==
    /\ thr[t].pc = "unlock"
    /\ lock' = ReleaseLock(lock, t)
    /\ thr' = [thr EXCEPT ![t] =
                 IF thr[t].op = "calculate_statistics"
                 THEN [thr[t] EXCEPT !.pc = "reduce"]
                 ELSE [pc |-> "returned", calls |-> thr[t].calls, op |-> thr[t].op,
                       arg |-> thr[t].arg, inv_len |-> thr[t].inv_len,
                       ret_len |-> Len(storage[StoreProc].metrics),
                       res |-> IF thr[t].op = "store_metric" THEN Ok(Unit)
                               ELSE Ok(thr[t].snapshot)]]
    /\ UNCHANGED <<overflow_checks, storage, last, stream, bench, clientVars,
                   srv, harness>>

\* calculate_statistics reduces the vector, holding no lock
StoreReduce(t) ==
    /\ thr[t].pc = "reduce"
    /\ thr' = [thr EXCEPT ![t] =
                 [pc |-> "returned", calls |-> thr[t].calls, op |-> thr[t].op,
                  arg |-> thr[t].arg, inv_len |-> thr[t].inv_len,
                  ret_len |-> Len(storage[StoreProc].metrics),
                  res |-> StatisticsOf(thr[t].snapshot, storage[StoreProc], thr[t].arg)]]
    /\ UNCHANGED <<overflow_checks, storage, last, stream, bench, clientVars,
                   srv, lock, harness>>

\* the caller has the result
StoreReturn(t) ==
    /\ thr[t].pc = "returned"
    /\ thr' = [thr EXCEPT ![t] = [pc |-> "idle", calls |-> thr[t].calls]]
    /\ UNCHANGED <<overflow_checks, storage, last, stream, bench, clientVars,
                   srv, lock, harness>>

\* the steps a thread takes by itself once inside a method
StoreStep(t) ==
    \/ StoreAcquire(t)
    \/ StorePush(t)
    \/ StoreFilter(t)
    \/ StoreRelease(t)
    \/ StoreReduce(t)
    \/ StoreReturn(t)

NextLock ==
    \/ \E t \in Threads, op \in StoreOps : \E arg \in StoreArgs(op) : StoreInvoke(t, op, arg)
    \/ \E t \in Threads : StoreAcquire(t)
    \/ \E t \in Threads : StorePush(t)
    \/ \E t \in Threads : StoreFilter(t)
    \/ \E t \in Threads : StoreRelease(t)
    \/ \E t \in Threads : StoreReduce(t)
    \/ \E t \in Threads : StoreReturn(t)

SpecLock == Init /\ [][NextLock]_vars

\* a thread inside a method is scheduled again and again
SpecLockFair == SpecLock /\ \A t \in Threads : WF_vars(StoreStep(t))

-----------------------------------------------------------------------------
(* SpecHarness: the instrumentation harness around one client call.        *)
(* Durations are whole nanoseconds; u64 is the U64Bits-bit word, and the   *)
(* clock rate keeps its ratio of 3 cycles to the nanosecond.               *)

\* the largest duration measured, in nanoseconds (as_nanos() is a u128: it
\* can exceed u64)
MaxNanos == 9
\* the largest reading of the allocation counter
MaxAlloc == 2
\* the largest payload, in bytes
MaxBytes == 1
\* the literal 1_000_000_000, nanoseconds to the second
NanosPerSecond == 2

APPROXIMATE_CPU_HZ == 3 * NanosPerSecond

\* the product computed in arbitrary precision
estimate_cpu_cycles_wide(nanos, checks) ==
    Ok((nanos * APPROXIMATE_CPU_HZ) \div NanosPerSecond)

\* (duration.as_nanos() as u64 * APPROXIMATE_CPU_HZ) / 1_000_000_000: the
\* cast truncates to u64, the u64 product panics (overflow checks on) or
\* wraps (off) when it exceeds u64::MAX
estimate_cpu_cycles(nanos, checks) ==
    LET Cycles(product) ==
            IF product > U64Max
            THEN (IF checks THEN Panic("attempt to multiply with overflow")
                  ELSE Ok(WrapU64(product) \div NanosPerSecond))
            ELSE Ok(product \div NanosPerSecond)
    IN  Cycles(WrapU64(nanos) * APPROXIMATE_CPU_HZ)

\* PayloadSizes::new
PayloadSizes_new(request_bytes, response_bytes) ==
    [request_bytes |-> request_bytes, response_bytes |-> response_bytes,
     total_bytes |-> request_bytes + response_bytes]

\* measure_memory's result: bytes_allocated at the end minus at the start
measure_memory(start_stats, end_stats) == end_stats - start_stats

\* the two wrappers
HarnessFns == {"benchmark_operation", "measure_submit_metric_comprehensive"}

\* where the wrapper's future is polled: by a task of the tokio runtime (the
\* demo's #[tokio::main]), on a thread that has entered the runtime's
\* context without driving tasks, or with no runtime at all
HarnessContexts == {"runtime_task", "entered_thread", "no_runtime"}

\* tokio::runtime::Handle::current().block_on(f()): Handle::current panics
\* without a runtime context, block_on panics on a thread that is driving
\* asynchronous tasks, and otherwise runs the future to completion
Handle_current_block_on(ctx) ==
    IF ctx = "no_runtime"
    THEN Panic("there is no reactor running, must be called from the context of a Tokio 1.x runtime")
    ELSE IF ctx = "runtime_task"
    THEN Panic("Cannot start a runtime from within a runtime")
    ELSE Ok("run")

\* the wrapper is called: Instant::now() and the first GLOBAL.stats()
HarnessCall(fn, ctx, request_bytes, start_stats) ==
    /\ harness = NoHarness
    /\ harness' = [pc |-> "called", fn |-> fn, ctx |-> ctx,
                   request_bytes |-> request_bytes,
                   start_stats |-> start_stats, counter |-> start_stats,
                   executed |-> 0]
    /\ UNCHANGED <<overflow_checks, storage, last, stream, bench, clientVars,
                   srv, lock, thr>>

\* the closure handed to measure_memory runs
HarnessBlockOn ==
    /\ harness.pc = "called"
    /\ \E b \in {Handle_current_block_on(harness.ctx)} :
          harness' = IF b.tag = "Ok"
                     THEN [harness EXCEPT !.pc = "running", !.executed = @ + 1]
                     ELSE [pc |-> "panicked", out |-> b] @@ harness
    /\ UNCHANGED <<overflow_checks, storage, last, stream, bench, clientVars,
                   srv, lock, thr>>

\* the process allocates while the wrapped call runs (the call itself or
\* any other thread: the counter is process-wide)
HarnessAlloc(n) ==
    /\ harness.pc = "running"
    /\ harness.counter + n <= MaxAlloc
    /\ harness' = [harness EXCEPT !.counter = @ + n]
    /\ UNCHANGED <<overflow_checks, storage, last, stream, bench, clientVars,
                   srv, lock, thr>>

\* the wrapped call completes with its result (the size of a response, or
\* an error) after `latency` nanoseconds; the second GLOBAL.stats()
HarnessCallEnds(result, latency) ==
    /\ harness.pc = "running"
    /\ harness' = [pc |-> "measured", result |-> result, latency |-> latency,
                   memory_allocated |->
                       measure_memory(harness.start_stats, harness.counter)]
                  @@ harness
    /\ UNCHANGED <<overflow_checks, storage, last, stream, bench, clientVars,
                   srv, lock, thr>>

\* the response size the wrapper counts: result.measure_payload_size() in
\* benchmark_operation, 0 in the demo
ResponseBytes(h) ==
    IF h.fn = "benchmark_operation" /\ h.result.tag = "Ok" THEN h.result.val
    ELSE 0

\* the rest of the wrapper: `result?` (demo only), estimate_cpu_cycles,
\* PayloadSizes::new, the BenchmarkMetrics returned
HarnessFinish ==
    /\ harness.pc = "measured"
    /\ \E cycles \in {estimate_cpu_cycles(harness.latency, overflow_checks)} :
          harness' =
              IF harness.fn = "measure_submit_metric_comprehensive"
                 /\ harness.result.tag = "Err"
              THEN [pc |-> "done", out |-> harness.result] @@ harness
              ELSE IF cycles.tag = "Panic"
              THEN [pc |-> "panicked", out |-> cycles, cycles |-> cycles]
                   @@ harness
              ELSE [pc |-> "done", cycles |-> cycles,
                    out |-> Ok([result |-> harness.result,
                                latency |-> harness.latency,
                                payload_size |->
                                    PayloadSizes_new(harness.request_bytes,
                                                     ResponseBytes(harness)),
                                memory_allocated |-> harness.memory_allocated,
                                cpu_cycles |-> cycles.val])] @@ harness
    /\ UNCHANGED <<overflow_checks, storage, last, stream, bench, clientVars,
                   srv, lock, thr>>

\* the caller has the wrapper's outcome
HarnessReturn ==
    /\ harness.pc \in {"done", "panicked"}
    /\ harness' = NoHarness
    /\ UNCHANGED <<overflow_checks, storage, last, stream, bench, clientVars,
                   srv, lock, thr>>

HarnessResults == {Ok(n) : n \in 0..MaxBytes} \union {Err("call failed")}

NextHarness ==
    \/ \E fn \in HarnessFns, ctx \in HarnessContexts, rq \in 0..MaxBytes,
          st \in 0..MaxAlloc : HarnessCall(fn, ctx, rq, st)
    \/ HarnessBlockOn
    \/ \E n \in 1..MaxAlloc : HarnessAlloc(n)
    \/ \E r \in HarnessResults, lat \in 0..MaxNanos : HarnessCallEnds(r, lat)
    \/ HarnessFinish
    \/ HarnessReturn

SpecHarness == Init /\ [][NextHarness]_vars

----------------------------------------------------------------------------
(* Properties of the store, checked under SpecStore *)

\* query covers metric: timestamp within both bounds, hostname equal to the
\* filter when there is one
Covers(query, metric) ==
    /\ query.start_time <= metric.timestamp
    /\ metric.timestamp <= query.end_time
    /\ \/ query.hostname_filter.tag = "None"
       \/ /\ query.hostname_filter.tag = "Some"
          /\ query.hostname_filter.val = metric.hostname

\* the positions of a log that a query covers
MatchIdx(log, query) == {i \in 1..Len(log) : Covers(query, log[i])}

\* r lists the covered entries of log, each once, in the order of the log:
\* the covered entry at position i is r's k-th element, k the number of
\* covered positions up to i
IsFilteredSubsequence(r, log, query) ==
    LET idx == MatchIdx(log, query)
    IN /\ Len(r) = Cardinality(idx)
       /\ \A i \in idx : r[Cardinality({j \in idx : j <= i})] = log[i]

IsPrefix(s, t) == Len(s) <= Len(t) /\ SubSeq(t, 1, Len(s)) = s

\* the store as the last call left it
StoreNow == storage[StoreProc]

\* C1: query_metrics(Q) returns exactly the entries of the stored log that Q
\* covers (start_time <= t <= end_time, hostname equal to the filter when one
\* is present), each once and in insertion order.
C1_QueryReturnsCoveredInOrder ==
    (last.op = "query_metrics" /\ ~last.pre.poisoned) =>
        /\ last.res.tag = "Ok"
        /\ IsFilteredSubsequence(last.res.val, last.pre.metrics, last.arg)

\* a query over a log of two different entries returned both, in log order
C1_Witness ==
    /\ last.op = "query_metrics"
    /\ last.arg.hostname_filter.tag = "Some"
    /\ last.res.tag = "Ok"
    /\ Len(last.pre.metrics) = 2
    /\ Len(last.res.val) = 2
    /\ last.res.val[1] # last.res.val[2]
    /\ last.res.val = last.pre.metrics

MachineMemorySum(log, query) ==
    LET idx == MatchIdx(log, query)
        RECURSIVE Sum(_)
        Sum(S) == IF S = {} THEN 0
                  ELSE LET i == CHOOSE x \in S : TRUE
                       IN log[i].memory_bytes + Sum(S \ {i})
    IN IF overflow_checks THEN Sum(idx) ELSE Sum(idx) % (2 ^ U64Bits)

\* the sum of a field over the covered entries
CoveredSum(log, query, f) ==
    LET idx == MatchIdx(log, query)
        RECURSIVE Sum(_)
        Sum(S) == IF S = {} THEN 0
                  ELSE LET i == CHOOSE x \in S : TRUE
                       IN log[i][f] + Sum(S \ {i})
    IN Sum(idx)

\* fraction fr equals n / d
IsQuotient(fr, n, d) == fr.den > 0 /\ fr.num * d = n * fr.den

\* C3: calculate_statistics(Q) reduces exactly the sequence query_metrics(Q)
\* returns on the same content: it fails exactly when query_metrics fails,
\* its count is the length of that sequence (the number of covered entries)
\* and each average is the sum over those entries divided by the count.
C3_StatisticsReduceTheQueryResult ==
    last.op = "calculate_statistics" =>
        LET q == query_metrics(last.pre, last.arg)
            n == Cardinality(MatchIdx(last.pre.metrics, last.arg))
        IN /\ last.res.tag = "Err" <=> q.tag = "Err"
           /\ last.res.tag = "Ok" =>
                 /\ last.res.val.count = Len(q.val)
                 /\ last.res.val.count = n
                 /\ n > 0 =>
                       /\ IsQuotient(last.res.val.avg_cpu_percent,
                                     CoveredSum(last.pre.metrics, last.arg, "cpu_percent"), n)
                       /\ IsQuotient(last.res.val.avg_disk_io_ops,
                                     CoveredSum(last.pre.metrics, last.arg, "disk_io_ops"), n)
                       /\ last.res.val.avg_memory_bytes * n
                              <= MachineMemorySum(last.pre.metrics, last.arg)
                       /\ MachineMemorySum(last.pre.metrics, last.arg)
                              < (last.res.val.avg_memory_bytes + 1) * n

\* statistics with a hostname filter reduced one of two stored entries
C3_Witness ==
    /\ last.op = "calculate_statistics"
    /\ last.arg.hostname_filter.tag = "Some"
    /\ last.res.tag = "Ok"
    /\ last.res.val.count = 1
    /\ Len(last.pre.metrics) = 2
    /\ last.res.val.avg_memory_bytes > 0

\* C4: with zero matching metrics (inverted ranges included) query_metrics
\* returns Ok with an empty sequence and calculate_statistics returns Ok with
\* count 0 and all-zero averages.
C4_EmptyResultIsOkAndZero ==
    (/\ last.op \in {"query_metrics", "calculate_statistics"}
     /\ ~last.pre.poisoned
     /\ MatchIdx(last.pre.metrics, last.arg) = {}) =>
        /\ last.res.tag = "Ok"
        /\ last.op = "query_metrics" => last.res.val = << >>
        /\ last.op = "calculate_statistics" =>
              /\ last.res.val.count = 0
              /\ last.res.val.avg_cpu_percent = F32Zero
              /\ last.res.val.avg_memory_bytes = 0
              /\ last.res.val.avg_disk_io_ops = F32Zero

\* C5: the store is append-only: every step leaves each log as it was or
\* extends it at the end (so the log of any earlier moment is a prefix of the
\* current one), and query_metrics and calculate_statistics leave the store
\* unchanged.
C5_AppendOnly ==
    [][/\ \A a \in Adapters : IsPrefix(storage[a].metrics, storage'[a].metrics)
       /\ last'.op \in {"query_metrics", "calculate_statistics"} => storage' = storage]_vars

\* a read ran on a log that two stores had extended, and left it as it was
C5_Witness ==
    /\ last.op \in {"query_metrics", "calculate_statistics"}
    /\ Len(last.pre.metrics) >= 2
    /\ last.pre.metrics[1] # last.pre.metrics[2]
    /\ StoreNow = last.pre

----------------------------------------------------------------------------
(* Properties of the adapters, checked under Spec and SpecStream *)

\* the last client call reached its server
Reached(op) == last.op = op /\ last.net = "ok"

\* C6: a metric submitted through an adapter's client half is stored equal
\* to the submitted value in every field, and a query through the adapter
\* that covers stored metrics (time range, and hostname when the filter is
\* set) returns them equal to the stored values, in order.
C6_SubmitThenQueryRoundTrip ==
    /\ (Reached("submit") /\ last.store_res.tag = "Ok") =>
          storage[last.adapter].metrics = Append(last.pre.metrics, last.arg)
    /\ (Reached("query") /\ ~last.pre.poisoned) =>
          /\ last.res.tag = "Ok"
          /\ IsFilteredSubsequence(last.res.val, last.pre.metrics, last.arg)

\* C7: the MetricQuery a server half passes to the store equals the
\* MetricQuery given to the client half, for query and for statistics.
C7_QueryPassedUnchanged ==
    (Reached("query") \/ Reached("statistics")) => last.passed = Some(last.arg)

\* C8 (as stated): the three server halves read and write one log.
C8_OneSharedStore ==
    \A a, b \in Adapters : storage[a] = storage[b]

\* C8 (amended): each adapter's server process has a store of its own, which
\* all handlers of that process use: a call through one adapter runs on
\* that adapter's store (a submit appends to it, a query and a statistics
\* call read it) and leaves the stores of the other adapters as they were.
C8_OneStorePerServer ==
    [][(Idle /\ last'.op # "none" /\ last'.net = "ok") =>
          LET a == last'.adapter
              own == storage[a]
          IN /\ \A b \in Adapters \ {a} : storage'[b] = storage[b]
             /\ last'.op = "submit" =>
                   /\ last'.store_res = store_metric(own, last'.passed.val).res
                   /\ storage'[a] = store_metric(own, last'.passed.val).store
             /\ (last'.op = "query" /\ last'.passed.tag = "Some") =>
                   /\ last'.store_res = query_metrics(own, last'.passed.val)
                   /\ storage'[a] = own
             /\ (last'.op = "statistics" /\ last'.passed.tag = "Some") =>
                   /\ last'.store_res = calculate_statistics(own, last'.passed.val)
                   /\ storage'[a] = own]_vars

\* a metric stored through REST is returned by a REST query and is not in
\* the log an unfiltered gRPC query reads
C8_Witness ==
    /\ Reached("query")
    /\ last.adapter = "grpc"
    /\ last.arg.hostname_filter.tag = "None"
    /\ last.res = Ok(<< >>)
    /\ storage["rest"].metrics # << >>
    /\ storage["capnp"].metrics # << >>
    /\ storage["grpc"].metrics = << >>

\* what is left of the snapshot to be delivered, oldest first: the messages
\* on the wire, the messages in the channel, the metrics not yet sent
InFlight(s) ==
    [i \in 1..Len(s.wire) |-> FromProtoMetric(ProstDecodeMetric(s.wire[i]))]
    \o [i \in 1..Len(s.chan) |-> FromProtoMetric(s.chan[i])]
    \o SubSeq(s.snapshot, s.next, Len(s.snapshot))

\* C9: the streaming query delivers the query result one message per
\* MetricPoint, in result order, none lost or duplicated: at every step the
\* points received followed by those in flight are the result; the channel
\* never holds more than its capacity; the stream is closed only after the
\* last message, and the drained client holds exactly the result.
C9_StreamDeliversResultInOrder ==
    stream.state \in {"open", "done"} =>
        /\ stream.received \o InFlight(stream) = stream.snapshot
        /\ Len(stream.chan) <= ChannelCapacity
        /\ stream.wire_closed => (stream.chan = << >> /\ stream.next > Len(stream.snapshot))
        /\ stream.state = "done" => stream.received = stream.snapshot

\* a result longer than the channel was drained to the end
C9_Witness ==
    /\ stream.state = "done"
    /\ Len(stream.snapshot) > ChannelCapacity
    /\ stream.received = stream.snapshot
    /\ stream.snapshot[1] # stream.snapshot[2]

\* the generic failure of each adapter's server half for each operation
GenericFailure(a, op) ==
    CASE a = "rest" -> HttpResponse(500, NoBody)
      [] a = "grpc" ->
            GrpcStatus("Internal",
                       CASE op = "submit" -> "Failed to store metric"
                         [] op = "query" -> "Failed to query metrics"
                         [] op = "statistics" -> "Failed to calculate statistics")
      [] a = "capnp" ->
            CapnpException(CASE op = "submit" -> "Failed to store metric"
                             [] op = "query" -> "Failed to query metrics"
                             [] op = "statistics" -> "Failed to calculate statistics")

\* C10: when the store operation of a call fails on the poisoned lock, the
\* server half answers with its adapter's generic failure, which carries
\* nothing of the store's error, and the client call returns an error that
\* is none of the errors the call returns when the connection fails.
C10_StoreFailureIsGenericAndDistinct ==
    (last.op # "none" /\ last.net = "ok" /\ last.store_res.tag = "Err") =>
        /\ last.response = GenericFailure(last.adapter, last.op)
        /\ last.res.tag = "Err"
        /\ last.res \notin {Err(e) : e \in ConnectErrors(last.adapter)}

\* a REST submit met the poisoned lock and the client call returned the
\* status error
C10_Witness ==
    /\ Reached("submit")
    /\ last.adapter = "rest"
    /\ last.pre.poisoned
    /\ last.store_res = Err("Lock poisoned")
    /\ last.res = Err(RestStatusError("REST submit failed", 500))

\* C11: the REST submit handler answers 201 exactly when the metric was
\* appended and 500 exactly when the store returned an error; a REST client
\* call returns Ok only on a success status, and on any other status an
\* error carrying that status.
C11_RestStatusMapping ==
    (last.op # "none" /\ last.net = "ok" /\ last.adapter = "rest") =>
        /\ last.op = "submit" =>
              /\ last.response = HttpResponse(201, NoBody)
                    <=> /\ last.store_res.tag = "Ok"
                        /\ storage["rest"].metrics = Append(last.pre.metrics, last.arg)
              /\ last.response = HttpResponse(500, NoBody) <=> last.store_res.tag = "Err"
        /\ last.res.tag = "Ok" =>
              (last.response.kind = "http" /\ IsSuccess(last.response.status))
        /\ (last.response.kind = "http" /\ ~IsSuccess(last.response.status)) =>
              /\ last.res.tag = "Err"
              /\ last.res.err.kind = "anyhow"
              /\ last.res.err.status = last.response.status

\* a REST statistics call was answered 500 and returned the error with 500
C11_Witness ==
    /\ Reached("statistics")
    /\ last.adapter = "rest"
    /\ last.response = HttpResponse(500, NoBody)
    /\ last.res = Err(RestStatusError("REST statistics failed", 500))

\* C14: once the lock is poisoned every later store_metric, query_metrics
\* and calculate_statistics call returns the error, the poisoned state is
\* never cleared and the log is never modified.
C14_PoisonIsPermanent ==
    [][storage[StoreProc].poisoned =>
          /\ storage'[StoreProc] = storage[StoreProc]
          /\ last'.op # "none" => last'.res = Err("Lock poisoned")]_vars

\* a query met the lock that the push beyond the capacity limit poisoned
C14_Witness ==
    /\ last.op = "query_metrics"
    /\ last.pre.poisoned
    /\ Len(last.pre.metrics) = VecCapacityLimit
    /\ last.res = Err("Lock poisoned")
    /\ StoreNow.poisoned

\* C17: for a non-empty result avg_memory_bytes is the truncated quotient of
\* the mathematical sum of memory_bytes by the count; the sum neither wraps
\* nor aborts the call.
C17_AvgMemoryIsExactQuotient ==
    (/\ last.op = "calculate_statistics"
     /\ ~last.pre.poisoned
     /\ MatchIdx(last.pre.metrics, last.arg) # {}) =>
        /\ last.res # Panic("attempt to add with overflow")
        /\ last.res.tag = "Ok" =>
              last.res.val.avg_memory_bytes =
                  CoveredSum(last.pre.metrics, last.arg, "memory_bytes")
                      \div Cardinality(MatchIdx(last.pre.metrics, last.arg))

\* C18: time_range_seconds is end_time - start_time for every pair of i64
\* bounds, empty result or not; the subtraction neither wraps nor aborts.
C18_TimeRangeIsDifference ==
    (last.op = "calculate_statistics" /\ ~last.pre.poisoned) =>
        /\ last.res # Panic("attempt to subtract with overflow")
        /\ last.res.tag = "Ok" =>
              last.res.val.time_range_seconds = last.arg.end_time - last.arg.start_time

\* C16: a client call sends at most one request and returns a failure
\* without resending: a call that reached its server sent exactly one
\* request and appended at most one entry, and only when its store call
\* succeeded; a call whose connection failed sent none and changed nothing.
C16_NoInternalRetry ==
    last.op # "none" =>
        /\ last.requests <= 1
        /\ last.net = "ok" =>
              /\ last.requests = 1
              /\ Len(storage[last.adapter].metrics) <= Len(last.pre.metrics) + 1
              /\ storage[last.adapter].metrics # last.pre.metrics =>
                    (last.op = "submit" /\ last.store_res.tag = "Ok")
        /\ last.net = "refused" =>
              /\ last.requests = 0
              /\ last.res.tag = "Err"
              /\ storage[last.adapter] = last.pre

\* a Cap'n Proto submit met the poisoned lock: one request, the error returned
C16_Witness ==
    /\ Reached("submit")
    /\ last.adapter = "capnp"
    /\ last.res = Err(CapnpError("Failed", "Failed to store metric"))
    /\ last.requests = 1
    /\ storage["capnp"] = last.pre

\* C12: two invocations of generate_test_data(N), at any two moments of the
\* wall clock, return equal sequences, timestamps included.
C12_GeneratorIsDeterministic ==
    bench.pc = "next" => bench.regenerated = bench.setup_metrics

\* C13: after the generated metrics were all submitted to the freshly
\* started services, the benchmark's query (first.timestamp - slack to
\* last.timestamp + slack, no filter) returns all of them and the statistics
\* over the same range count all of them, on every adapter and for every
\* outcome of the timestamp offsets.
C13_BenchQueryCoversSetup ==
    (bench.pc = "measure" /\ ~bench.dropped /\ last.op # "none" /\ last.net = "ok") =>
        /\ last.res.tag = "Ok"
        /\ last.op = "query" => Len(last.res.val) = GenCount
        /\ last.op = "statistics" => last.res.val.count = GenCount

\* C15: no layer continues after a failure as if the call had succeeded:
\* when a client call has returned an error, the benchmark function that
\* made it does not go on (it stops with the error).
C15_FailuresAreNotDropped ==
    [][(last.op # "none" /\ last.res.tag = "Err" /\ last'.op = "none") =>
          bench'.pc = "panicked"]_vars

\* the slot, once set, keeps the client it holds
SlotNeverReplaced == CLIENT # None => CLIENT' = CLIENT

\* a gRPC call that starts with the slot set takes the stored client and
\* opens nothing
SetSlotIsReused ==
    \A t \in Tasks :
        (calls[t].pc = "idle" /\ calls'[t].pc # "idle" /\ CLIENT # None
            /\ calls'[t].adapter = "grpc") =>
                /\ calls'[t].pc = "send"
                /\ calls'[t].chan = CLIENT.val
                /\ connections' = connections

\* a gRPC call whose connect succeeded ends having sent its request
ConnectedCallSends ==
    \A t \in Tasks :
        (calls'[t].pc = "done" /\ calls'[t].adapter = "grpc" /\ calls'[t].opened = 1) =>
            calls'[t].sent

\* C19: the gRPC client has one shared channel per process: the slot is set
\* at most once and never replaced, a call that finds it set uses it without
\* connecting, and every call whose connect succeeds, two racing first calls
\* included, sends its request instead of returning an initialisation error.
C19_OneSharedChannel ==
    [][SlotNeverReplaced /\ SetSlotIsReused /\ ConnectedCallSends]_vars

\* C20: every Cap'n Proto client call makes one connect of its own, and a
\* call that holds a connection holds one it opened itself, that no other
\* call holds and on which nothing but its own request is sent.
C20_FreshConnectionPerCall ==
    \A t \in Tasks :
        (calls[t].pc \in {"send", "done"} /\ calls[t].adapter = "capnp") =>
            /\ calls[t].attempts = 1
            /\ calls[t].sent => calls[t].chan # 0
            /\ calls[t].chan # 0 =>
                  /\ calls[t].opened = 1
                  /\ connections[calls[t].chan].adapter = "capnp"
                  /\ connections[calls[t].chan].opener = t
                  /\ connections[calls[t].chan].open
                  /\ connections[calls[t].chan].requests = (IF calls[t].sent THEN 1 ELSE 0)
                  /\ \A u \in Tasks \ {t} :
                        calls[u].pc # "idle" => calls[u].chan # calls[t].chan

\* two Cap'n Proto calls in progress at once, after an earlier one returned,
\* one of them a query that has sent its request
C20_Witness ==
    \E t \in Tasks, u \in Tasks :
        /\ t # u
        /\ calls[t].pc = "done" /\ calls[t].adapter = "capnp" /\ calls[t].sent
        /\ calls[t].op = "query"
        /\ calls[u].pc = "send" /\ calls[u].adapter = "capnp"
        /\ Len(connections) = 3
        /\ \A c \in 1..3 : connections[c].adapter = "capnp"

\* the metrics a server process stored, in the order it stored them
StoredBy(a) == [i \in 1..Len(srv[a].origin) |-> srv[a].origin[i].metric]

\* a step in which the RpcSystem of connection c fails
RpcErrorStep(c) ==
    /\ c \in 1..Len(srv["capnp"].conns)
    /\ ~srv["capnp"].conns[c].rpc_error
    /\ srv'["capnp"].conns[c].rpc_error

\* C21: a server process keeps one task per accepted connection and all of
\* them work on the one store: a covering query over any connection returns
\* every metric stored over any connection of that adapter, in order; and a
\* failing RpcSystem ends its own connection's task only, the accept loop
\* and the other connections' tasks staying as they are.
C21_ConnectionTasksShareTheStore ==
    /\ [] ((last.op = "query" /\ "conn" \in DOMAIN last /\ last.res.tag = "Ok") =>
              last.res.val = StoredBy(last.adapter))
    /\ [][ \A c \in 1..MaxServerConns :
              RpcErrorStep(c) =>
                 /\ srv'["capnp"].conns[c].task = "ended"
                 /\ srv'["capnp"].accepting = srv["capnp"].accepting
                 /\ Len(srv'["capnp"].conns) = Len(srv["capnp"].conns)
                 /\ \A d \in 1..Len(srv["capnp"].conns) :
                       d # c => srv'["capnp"].conns[d] = srv["capnp"].conns[d]
                 /\ storage' = storage
         ]_vars

\* on each adapter, a query over the second connection returns a metric
\* stored over the first; on Cap'n Proto after the first connection's
\* RpcSystem failed
C21_Witness ==
    /\ last.op = "query" /\ "conn" \in DOMAIN last /\ last.conn = 2
    /\ last.adapter = "capnp"
    /\ last.res.tag = "Ok" /\ Len(last.res.val) = 2
    /\ srv["capnp"].origin[1].conn = 1
    /\ srv["capnp"].origin[2].conn = 2
    /\ srv["capnp"].conns[1].rpc_error
    /\ srv["capnp"].conns[2].task = "running"
    /\ srv["capnp"].accepting

\* C23: a Cap'n Proto connection is confined to the single-threaded task
\* queue that created it: the server's connection tasks are on the LocalSet
\* of main and polled by the thread that runs it, never by a worker of the
\* pool; a client call's connection is polled only by the call's own
\* LocalSet, on the caller's thread.
C23_CapnpConfinedToItsLocalSet ==
    /\ \A c \in 1..Len(srv["capnp"].conns) :
          /\ srv["capnp"].conns[c].queue = "local"
          /\ srv["capnp"].conns[c].polled_by \subseteq {MainThread}
    /\ \A t \in Tasks :
          (calls[t].pc # "idle" /\ calls[t].adapter = "capnp") =>
              calls[t].polled \subseteq {<<CallerThread[t], t>>}

\* two server connections have handled calls and two client calls, on two
\* LocalSets, have sent their requests
C23_Witness ==
    /\ Len(srv["capnp"].conns) = 2
    /\ \A c \in 1..2 : srv["capnp"].conns[c].polled_by = {MainThread}
    /\ \A t \in Tasks :
          /\ calls[t].pc = "done" /\ calls[t].adapter = "capnp" /\ calls[t].sent
          /\ calls[t].polled = {<<CallerThread[t], t>>}

\* thread t is between taking the lock and giving it up
HoldsLock(t) == thr[t].pc \in {"locked", "unlock"}

\* C22: store_metric holds the lock exclusively: while a thread is inside
\* store_metric's guarded section no other thread is inside any guarded
\* section, and the lock never has a writer together with readers; readers
\* may hold it together.
C22_WriterExcludesEveryone ==
    /\ lock.writer # None => lock.readers = {}
    /\ \A t \in Threads :
          HoldsLock(t) =>
              /\ (thr[t].op = "store_metric") = (lock.writer = Some(t))
              /\ (thr[t].op # "store_metric") = (t \in lock.readers)
              /\ thr[t].op = "store_metric" =>
                    \A u \in Threads \ {t} : ~HoldsLock(u)

\* a query and an aggregate hold the lock at the same time, on a store
\* that holds a metric
C22_Witness ==
    \E t \in Threads, u \in Threads :
        /\ thr[t].pc = "locked" /\ thr[t].op = "query_metrics"
        /\ thr[u].pc = "unlock" /\ thr[u].op = "calculate_statistics"
        /\ lock.readers = {t, u}
        /\ storage[StoreProc].metrics # << >>

\* the store as it stood when its log had n entries
StoreAt(n) == [metrics |-> SubSeq(storage[StoreProc].metrics, 1, n), poisoned |-> FALSE]

\* C26: reads are linearizable: the result a query or an aggregate returns
\* is the one the method computes on the log as it stood at one instant
\* between the call's invocation and its return (so it holds every matching
\* metric stored before the invocation), count and averages of an aggregate
\* coming from that one log.
C26_ReadsSeeOneInstant ==
    \A t \in Threads :
        (thr[t].pc = "returned" /\ thr[t].op # "store_metric" /\ thr[t].res.tag = "Ok") =>
            \E n \in thr[t].inv_len..thr[t].ret_len :
                thr[t].res = IF thr[t].op = "query_metrics"
                             THEN query_metrics(StoreAt(n), thr[t].arg)
                             ELSE calculate_statistics(StoreAt(n), thr[t].arg)

\* an aggregate invoked on the empty log returns the statistics of the log's
\* first entry after a second matching entry was stored
C26_Witness ==
    \E t \in Threads :
        /\ thr[t].pc = "returned" /\ thr[t].op = "calculate_statistics"
        /\ thr[t].res.tag = "Ok" /\ thr[t].res.val.count = 1
        /\ thr[t].inv_len = 0 /\ thr[t].ret_len = 2
        /\ \A i \in 1..2 : storage[StoreProc].metrics[i].hostname = <<"w">>

\* C27: the store cannot deadlock: a thread never asks for the lock while it
\* holds it, and every call of store_metric, query_metrics and
\* calculate_statistics, whatever the other threads are calling, returns.
C27_EveryStoreCallReturns ==
    /\ [](\A t \in Threads :
             thr[t].pc \in {"acquire", "reduce", "returned", "idle"} =>
                 (lock.writer # Some(t) /\ t \notin lock.readers))
    /\ \A t \in Threads : (thr[t].pc # "idle") ~> (thr[t].pc = "idle")

\* a store_metric is about to give up the lock for which the other thread's
\* aggregate waits, both in their second call
C27_Witness ==
    \E t \in Threads, u \in Threads :
        /\ thr[t].pc = "unlock" /\ thr[t].op = "store_metric" /\ thr[t].calls = 2
        /\ thr[u].pc = "acquire" /\ thr[u].op = "calculate_statistics" /\ thr[u].calls = 2
        /\ ~storage[StoreProc].poisoned

\* C28: a QueryMetrics stream is a snapshot: what the client has received
\* and what is still on the way are, together and in order, the result of
\* the query on the store as it was when the handler ran, whatever has been
\* stored since; the drained client holds exactly that result.
C28_StreamIsSnapshot ==
    stream.state \in {"open", "done"} =>
        /\ stream.received \o InFlight(stream)
              = query_metrics(stream.pre, stream.query).val
        /\ stream.state = "done" =>
              stream.received = query_metrics(stream.pre, stream.query).val

\* a drained stream that differs from what the query returns now, a
\* matching metric having been stored while it was open
C28_Witness ==
    /\ stream.state = "done"
    /\ stream.received # << >>
    /\ storage["grpc"].metrics # stream.pre.metrics
    /\ query_metrics(storage["grpc"], stream.query).tag = "Ok"
    /\ query_metrics(storage["grpc"], stream.query).val # stream.received

\* the producer task of the stream is alive
ProducerRunning == stream.state \in {"open", "dropped"} /\ stream.tx_open

\* C29: the producer task ends, whether the client drains the stream or
\* drops it: it is never left waiting on the full channel of a dropped
\* receiver, and once the receiver is gone nothing more enters the channel.
C29_ProducerEnds ==
    /\ ProducerRunning ~> ~ProducerRunning
    /\ [][(stream.state = "dropped" /\ ~stream.rx_open /\ stream'.state = "dropped")
              => stream'.chan = << >>]_vars

\* the client dropped a stream whose producer had metrics left to send: the
\* producer has ended at its failed send, the channel is released
C29_Witness ==
    /\ stream.state = "dropped"
    /\ ~stream.rx_open
    /\ ~stream.tx_open
    /\ stream.next <= Len(stream.snapshot)
    /\ Len(stream.snapshot) > ChannelCapacity

\* C24: called from a task running on the asynchronous runtime, the harness
\* runs the wrapped call exactly once to completion and returns its result
\* with the metrics: memory_allocated the counter after minus before,
\* cpu_cycles the estimate of the latency, total_bytes the sum of the two
\* payload sizes.
C24_HarnessRunsTheCallOnce ==
    (harness.pc \in {"done", "panicked"} /\ harness.ctx = "runtime_task") =>
        /\ harness.pc = "done"
        /\ harness.executed = 1
        /\ harness.out.tag = "Ok" =>
              /\ harness.out.val.result = harness.result
              /\ harness.out.val.memory_allocated
                    = harness.counter - harness.start_stats
              /\ harness.out.val.cpu_cycles = harness.cycles.val
              /\ harness.out.val.payload_size.total_bytes
                    = harness.out.val.payload_size.request_bytes
                      + harness.out.val.payload_size.response_bytes

\* C25: the estimate of a measured latency is 3 times its nanoseconds, the
\* product taken without wrapping, and no shorter duration has a larger
\* estimate.
C25_CyclesAreThreeTimesNanos ==
    (harness.pc \in {"done", "panicked"} /\ "cycles" \in DOMAIN harness) =>
        /\ harness.cycles = estimate_cpu_cycles_wide(harness.latency, overflow_checks)
        /\ harness.cycles.val = 3 * harness.latency
        /\ \A d \in 0..harness.latency :
              /\ estimate_cpu_cycles(d, overflow_checks).tag = "Ok"
              /\ estimate_cpu_cycles(d, overflow_checks).val <= harness.cycles.val

\* the Cap'n Proto client connections that are open
OpenCapnpConnections ==
    {c \in 1..Len(connections) :
        connections[c].adapter = "capnp" /\ connections[c].open}

\* C30: no Cap'n Proto client connection outlives its call: an open one is
\* held by a call of its opener that has not returned, and when every call
\* has returned the number of open connections is zero.
C30_NoConnectionOutlivesItsCall ==
    /\ \A c \in OpenCapnpConnections :
          /\ calls[connections[c].opener].pc \in {"send", "done"}
          /\ calls[connections[c].opener].adapter = "capnp"
          /\ calls[connections[c].opener].chan = c
    /\ (\A t \in Tasks : calls[t].pc = "idle") =>
          Cardinality(OpenCapnpConnections) = 0

\* every call has returned, three Cap'n Proto calls among them, by both
\* tasks, each having connected and sent
C30_Witness ==
    /\ \A t \in Tasks : calls[t].pc = "idle"
    /\ Len(connections) = 3
    /\ \A c \in 1..3 : connections[c].adapter = "capnp" /\ connections[c].requests = 1
    /\ \E c \in 1..3, d \in 1..3 : connections[c].opener # connections[d].opener
    /\ OpenCapnpConnections = {}

====
